---- MODULE Spec2Model ----
(***************************************************************************)
(* A model of clusterman's autoscaling core: the resource-group backends   *)
(* (auto scaling group, spot fleet), the pool manager that rebalances a    *)
(* pool target over the groups and prunes idle capacity, and the           *)
(* autoscaler's control loop.                                              *)
(*                                                                         *)
(* The backends, the agent-state classification and the autoscaler are     *)
(* translated from src/clusterman.  The pool manager module                *)
(* (clusterman/mesos/mesos_pool_manager.py) and the ownership guard        *)
(* (protect_unowned_instances) are not among the source files; they are    *)
(* modelled from spec.md sections 4.1 and 4.2 and anchored on the values   *)
(* the tests under src/tests and src/itests expect.                        *)
(***************************************************************************)
EXTENDS Integers, Sequences, FiniteSets, TLC

\* ------------------------------------------------------------------ bounds
NumGroups == 3
NumInstances == 4
MaxTicks == 3
MaxTarget == 3
MaxDesired == 6
MaxRequest == 3
MaxPayload == 9
MaxResponse == 6
NumMarkets == 2
MaxWeight == 3
MaxSimTarget == 4
MaxLaunched == 5
_BATCH_TERM_SIZE == 2

Groups == 1..NumGroups
InstanceIds == 1..NumInstances

VARIABLES
    groups,      \* group id -> provider-side record of the fleet
    alive,       \* instance ids the compute API still runs
    protected,   \* instance ids with ASG scale-in protection
    info,        \* instance id -> [owner, market, hasIp, agentCpus] (what AWS and Mesos report)
    cfg,         \* the pool's configuration
    last,        \* what the last operation did (its inputs, result and provider calls)
    auto,        \* the autoscaler: its configured signal and autoscaling configuration
    tick,        \* what the last Autoscaler.run did
    conn,        \* one evaluate_signal exchange over the signal's socket
    load,        \* the construction of the autoscaler: the signals being loaded
    batch,       \* the batch's loop around Autoscaler.run and the clock it reads
    sim,         \* a simulated spot fleet: its markets, instances and target
    asg          \* an auto scaling group read through its timed caches

vars == <<groups, alive, protected, info, cfg, last, auto, tick, conn, load, batch, sim, asg>>

\* ----------------------------------------------------------------- helpers
Min(a, b) == IF a < b THEN a ELSE b
Max(a, b) == IF a > b THEN a ELSE b
Abs(a) == IF a < 0 THEN -a ELSE a

RECURSIVE SumOver(_, _)
SumOver(f, S) ==
    IF S = {} THEN 0
    ELSE LET x == CHOOSE y \in S : TRUE IN f[x] + SumOver(f, S \ {x})

\* The ids of S in ascending order, as a sequence.
RECURSIVE SortedSeq(_)
SortedSeq(S) ==
    IF S = {} THEN <<>>
    ELSE LET m == CHOOSE x \in S : \A y \in S : x <= y
         IN <<m>> \o SortedSeq(S \ {m})

SeqToSet(s) == {s[k] : k \in 1..Len(s)}

\* ------------------------------------------------- markets and the fleets
\* A market is <<instance type, availability zone>>.
NanoA == <<"t2.nano", "a">>
LargeA == <<"m3.large", "a">>
LargeB == <<"m3.large", "b">>
Markets == {NanoA, LargeA, LargeB}

\* EC2_INSTANCE_TYPES[type].cpus
Cpus(type) == IF type = "t2.nano" THEN 1 ELSE 2

\* The backend of each resource group, from the pool's configuration.
Kind(g) == cfg.resource_groups[g]

\* The ASG's description: its availability zones and its launch configuration.
AvailabilityZones(g) == {"a", "b"}
LaunchInstanceType(g) == "m3.large"

\* SpotFleetResourceGroup.market_weights, from the launch specifications
\* (WeightedCapacity per market).
market_weights(g) == (NanoA :> 1) @@ (LargeA :> 2)

\* market_weight(market) of a backend.
market_weight(g, market) ==
    IF Kind(g) = "asg"
    THEN IF market[2] \in AvailabilityZones(g) /\ market[1] = LaunchInstanceType(g)
         THEN Cpus(market[1])
         ELSE 0
    ELSE market_weights(g)[market]

\* instance_ids: the group's current members (the provider's listing).
Members(g, live) == {i \in live : info[i].owner = g}
instance_ids(g) == SortedSeq(Members(g, alive))

MembersIn(g, live, market) == {i \in Members(g, live) : info[i].market = market}

\* is_stale: an ASG is never stale; a spot fleet is when marked for
\* decommissioning.
is_stale_never(g) == FALSE
is_stale(g) == IF Kind(g) = "asg" THEN FALSE ELSE groups[g].stale

\* target_capacity: DesiredCapacity / TargetCapacity; a stale group's is 0.
RawTarget(g) == groups[g].target
target_capacity(g) == IF is_stale(g) THEN 0 ELSE RawTarget(g)

\* fulfilled_capacity: the ASG counts its instances; the spot fleet reports
\* FulfilledCapacity, the weighted size the provider delivered.
FulfilledOf(g, live) ==
    IF Kind(g) = "asg"
    THEN Cardinality(Members(g, live))
    ELSE SumOver([i \in InstanceIds |-> market_weights(g)[info[i].market]], Members(g, live))
fulfilled_capacity(g) == FulfilledOf(g, alive)

\* market_capacities: the ASG counts instances per market, the spot fleet
\* multiplies the count by the market's weight; a market without instances
\* of the group is not in the mapping.
MarketCapacityOf(g, live, market) ==
    IF MembersIn(g, live, market) = {} THEN 0
    ELSE IF Kind(g) = "asg"
    THEN Cardinality(MembersIn(g, live, market))
    ELSE Cardinality(MembersIn(g, live, market)) * market_weights(g)[market]

\* ------------------------------------------------------------ pool manager
NonStaleGroups == {g \in Groups : ~is_stale(g)}

\* MesosPoolManager.target_capacity / fulfilled_capacity: the sums over the
\* groups (a stale group counts 0 towards the target).
PoolTarget == SumOver([g \in Groups |-> target_capacity(g)], Groups)
PoolFulfilledOf(live) == SumOver([g \in Groups |-> FulfilledOf(g, live)], Groups)

\* _constrain_target_capacity: the requested target is held within
\* [min_capacity, max_capacity] and above one unit per non-stale group, and
\* the change from the current pool target within max_weight_to_add /
\* max_weight_to_remove.
PoolFloor == Max(cfg.min_capacity, Cardinality(NonStaleGroups))
ClampToBounds(requested) == Min(cfg.max_capacity, Max(PoolFloor, requested))
ClampDeltaUncapped(delta) == delta
ClampDelta(delta) ==
    IF delta > 0 THEN Min(delta, cfg.max_weight_to_add)
    ELSE Max(delta, -cfg.max_weight_to_remove)
_constrain_target_capacity_uncapped(requested) == ClampToBounds(requested)
_constrain_target_capacity(requested) ==
    PoolTarget + ClampDelta(ClampToBounds(requested) - PoolTarget)

\* The non-stale groups in the order the rebalancing walks them: by current
\* target, ascending when scaling up and descending when scaling down, ties
\* by id.
SortGroupsById(S, coeff) == SortedSeq(S)
RECURSIVE SortGroups(_, _)
SortGroups(S, coeff) ==
    IF S = {} THEN <<>>
    ELSE LET g == CHOOSE x \in S : \A y \in S :
                     \/ coeff * target_capacity(x) < coeff * target_capacity(y)
                     \/ (target_capacity(x) = target_capacity(y) /\ x <= y)
         IN <<g>> \o SortGroups(S \ {g}, coeff)

\* Whether the candidate's current target is beyond the equal share
\* budget / remaining, against the direction of the scaling.
BeyondShareNever(t, budget, remaining, coeff) == FALSE
BeyondShare(t, budget, remaining, coeff) ==
    IF coeff = 1 THEN t * remaining > budget ELSE t * remaining < budget

\* The targets of the first `remaining` groups of `order` when `budget` is
\* left for them: a candidate beyond the share keeps its target and leaves
\* the budget; otherwise all that remain get floor(share), the first
\* (budget mod remaining) one more.
RECURSIVE DistributeShortRemainder(_, _, _, _)
DistributeShortRemainder(order, remaining, budget, coeff) ==
    IF remaining = 0 THEN [k \in 1..Len(order) |-> target_capacity(order[k])]
    ELSE IF BeyondShare(target_capacity(order[remaining]), budget, remaining, coeff)
    THEN DistributeShortRemainder(order, remaining - 1, budget - target_capacity(order[remaining]), coeff)
    ELSE [k \in 1..Len(order) |->
            IF k > remaining THEN target_capacity(order[k])
            ELSE (budget \div remaining) + (IF k < budget % remaining THEN 1 ELSE 0)]
RECURSIVE Distribute(_, _, _, _)
Distribute(order, remaining, budget, coeff) ==
    IF remaining = 0 THEN [k \in 1..Len(order) |-> target_capacity(order[k])]
    ELSE IF BeyondShare(target_capacity(order[remaining]), budget, remaining, coeff)
    THEN Distribute(order, remaining - 1, budget - target_capacity(order[remaining]), coeff)
    ELSE [k \in 1..Len(order) |->
            IF k > remaining THEN target_capacity(order[k])
            ELSE (budget \div remaining) + (IF k <= budget % remaining THEN 1 ELSE 0)]

\* The direction of the scaling: -1 when the pool's target is to go down.
DirectionUp(new_target_capacity) == 1
Direction(new_target_capacity) == IF new_target_capacity < PoolTarget THEN -1 ELSE 1

\* _compute_new_resource_group_targets: group id -> new target; a stale
\* group gets 0.
_compute_new_resource_group_targets(new_target_capacity) ==
    LET coeff == Direction(new_target_capacity)
        order == SortGroups(NonStaleGroups, coeff)
        dist == Distribute(order, Len(order), new_target_capacity, coeff)
    IN [g \in Groups |->
          IF is_stale(g) THEN 0
          ELSE LET k == CHOOSE j \in 1..Len(order) : order[j] = g IN dist[k]]

\* ------------------------------------------------------- agents and pruning
\* get_mesos_agent_and_state_from_aws_instance: an instance without a
\* private IP is unknown, one without an agent at its IP is orphaned, one
\* whose agent has no allocated CPU is idle, any other is running.
\* info[i].agentCpus is -1 when no agent has the instance's IP, else the
\* agent's allocated CPUs.
allocated_cpu_resources(i) == info[i].agentCpus
MesosAgentStateNoAgentCheck(i) ==
    IF ~info[i].hasIp THEN "unknown"
    ELSE IF allocated_cpu_resources(i) <= 0 THEN "idle"
    ELSE "running"
MesosAgentState(i) ==
    IF ~info[i].hasIp THEN "unknown"
    ELSE IF info[i].agentCpus = -1 THEN "orphaned"
    ELSE IF allocated_cpu_resources(i) = 0 THEN "idle"
    ELSE "running"

\* _find_resource_group: the group of the pool that lists the instance, 0
\* when none does.
_find_resource_group(i, live) ==
    IF \E g \in Groups : i \in Members(g, live)
    THEN CHOOSE g \in Groups : i \in Members(g, live)
    ELSE 0

\* _idle_agents_by_market: the instances the compute API reports whose
\* agent is idle, per market.
IdleCandidates(live) == {i \in live : MesosAgentState(i) = "idle"}
IdleIn(cands, market) == {i \in cands : info[i].market = market}

\* The pool-wide capacity per market: the sum of the groups'.
PoolMarketCapacity(live, market) ==
    SumOver([g \in Groups |-> MarketCapacityOf(g, live, market)], Groups)

\* Markets in lexicographic order of (instance type, availability zone).
MarketRank(m) == IF m = LargeA THEN 1 ELSE IF m = LargeB THEN 2 ELSE 3

\* find_largest_capacity_market among the markets that still have idle
\* candidates: <<market, capacity>>, <<"None", 0>> when there is none.
find_smallest_capacity_market(caps, cands) ==
    LET open == {m \in Markets : IdleIn(cands, m) # {}}
    IN IF open = {} THEN <<"None", 0>>
       ELSE LET m == CHOOSE x \in open : \A y \in open :
                        \/ caps[x] < caps[y]
                        \/ (caps[x] = caps[y] /\ MarketRank(x) <= MarketRank(y))
            IN <<m, caps[m]>>
find_largest_capacity_market(caps, cands) ==
    LET open == {m \in Markets : IdleIn(cands, m) # {}}
    IN IF open = {} THEN <<"None", 0>>
       ELSE LET m == CHOOSE x \in open : \A y \in open :
                        \/ caps[x] > caps[y]
                        \/ (caps[x] = caps[y] /\ MarketRank(x) <= MarketRank(y))
            IN <<m, caps[m]>>

\* One pass of the pruning loop from the state st = [curr, cands, caps,
\* marked, error, steps]: curr is the fulfilled capacity left, cands the
\* idle candidates not yet considered, caps the market capacities, marked
\* the instances chosen, steps what each iteration found (PruneStep: the
\* state it began with, what find_largest_capacity_market returned, the
\* candidate taken and what became of it).  A candidate is taken from the
\* largest market; a candidate no group owns raises an error and ends the
\* pass; a candidate is skipped when its group would fall below one unit or
\* when the pool would fall below min_capacity.
PruneStep(st, choice, taken, outcome) ==
    [choice |-> choice, caps |-> st.caps, cands |-> st.cands, marked |-> st.marked,
     curr |-> st.curr, taken |-> taken, outcome |-> outcome]

\* The loop's condition: it goes on while the fulfilled capacity left is
\* above the target.
PruneDoneNever(curr, target) == FALSE
PruneDone(curr, target) == curr <= target

\* Whether taking `weight` out of a group that has `left` would leave it
\* below its minimum of one unit.
GroupProtectedNever(left, weight) == FALSE
GroupProtected(left, weight) == left - weight < 1

\* Whether taking `weight` out of the pool's `curr` would leave the pool
\* below min_capacity.
PoolProtected(curr, weight) == curr - weight < cfg.min_capacity

RECURSIVE PruneLoop(_, _, _)
PruneLoop(st, target, live) ==
    IF PruneDone(st.curr, target) THEN st
    ELSE LET choice == find_largest_capacity_market(st.caps, st.cands)
         IN IF choice[1] = "None"
            THEN [st EXCEPT !.steps = Append(@, PruneStep(st, choice, 0, "none"))]
            ELSE LET market == choice[1]
                     i == CHOOSE x \in IdleIn(st.cands, market) :
                              \A y \in IdleIn(st.cands, market) : x >= y
                     g == _find_resource_group(i, live)
                 IN IF g = 0
                    THEN [st EXCEPT !.error = TRUE,
                                    !.steps = Append(@, PruneStep(st, choice, i, "error"))]
                    ELSE LET weight == market_weight(g, market)
                             left == FulfilledOf(g, live \ st.marked)
                         IN IF PoolProtected(st.curr, weight)
                            THEN PruneLoop(
                                   [st EXCEPT !.cands = @ \ {i},
                                              !.steps = Append(@, PruneStep(st, choice, i, "pool_protected"))],
                                   target, live)
                            ELSE IF GroupProtected(left, weight)
                            THEN PruneLoop(
                                   [st EXCEPT !.cands = @ \ {i},
                                              !.steps = Append(@, PruneStep(st, choice, i, "group_protected"))],
                                   target, live)
                            ELSE PruneLoop(
                                   [curr |-> st.curr - weight,
                                    cands |-> st.cands \ {i},
                                    caps |-> [st.caps EXCEPT ![market] = @ - weight],
                                    marked |-> st.marked \cup {i},
                                    error |-> FALSE,
                                    steps |-> Append(st.steps, PruneStep(st, choice, i, "marked"))],
                                   target, live)

\* _choose_instances_to_prune: the instances a pruning pass marks, and
\* whether it raised.
MarkedForPruning(target, live) ==
    PruneLoop([curr |-> PoolFulfilledOf(live),
               cands |-> IdleCandidates(live),
               caps |-> [m \in Markets |-> PoolMarketCapacity(live, m)],
               marked |-> {},
               error |-> FALSE,
               steps |-> <<>>],
              target, live)

\* ------------------------------------------------------ backend operations
\* AutoScalingResourceGroup.modify_target_capacity: the capacity is rounded
\* into [MinSize, MaxSize]; a dry run returns before any provider call;
\* otherwise protection is removed from the first target_diff instances when
\* excess capacity is to be terminated, and DesiredCapacity is set.
\* Returns [target, unprotect, calls] and, for the record, whether the
\* rounding was warned about (warned), the DesiredCapacity of the request
\* built (desired) and the provider calls in the order they are made (log).
AsgRoundToMaxOnly(g, capacity) ==
    IF capacity > groups[g].maxSize THEN groups[g].maxSize
    ELSE capacity
AsgRound(g, capacity) ==
    IF capacity > groups[g].maxSize THEN groups[g].maxSize
    ELSE IF capacity < groups[g].minSize THEN groups[g].minSize
    ELSE capacity
AsgWarns(g, capacity) == capacity > groups[g].maxSize \/ capacity < groups[g].minSize
AsgDryRunIgnored(dry_run) == FALSE
AsgDryRunReturns(dry_run) == dry_run
\* instance_ids[:int(target_diff)]
AsgLastInstances(ids, target_diff) ==
    SubSeq(ids, Len(ids) - Min(Len(ids), Max(target_diff, 0)) + 1, Len(ids))
AsgFirstInstances(ids, target_diff) == SubSeq(ids, 1, Min(Len(ids), Max(target_diff, 0)))
AsgModifyTargetCapacity(g, capacity, terminate_excess_capacity, dry_run) ==
    LET rounded == AsgRound(g, capacity)
        target_diff == RawTarget(g) - rounded
        first == AsgFirstInstances(instance_ids(g), target_diff)
    IN IF AsgDryRunReturns(dry_run)
       THEN [target |-> RawTarget(g), unprotect |-> {}, calls |-> {},
             warned |-> AsgWarns(g, capacity), desired |-> rounded, log |-> <<>>]
       ELSE IF target_diff > 0 /\ terminate_excess_capacity
       THEN [target |-> rounded, unprotect |-> SeqToSet(first),
             calls |-> {<<"set_instance_protection", g>>, <<"set_desired_capacity", g>>},
             warned |-> AsgWarns(g, capacity), desired |-> rounded,
             log |-> << <<"set_instance_protection", first>>,
                        <<"set_desired_capacity", rounded>> >>]
       ELSE [target |-> rounded, unprotect |-> {},
             calls |-> {<<"set_desired_capacity", g>>},
             warned |-> AsgWarns(g, capacity), desired |-> rounded,
             log |-> << <<"set_desired_capacity", rounded>> >>]

\* SpotFleetResourceGroup.modify_target_capacity: one
\* modify_spot_fleet_request call setting TargetCapacity.
SfrSetTargetCapacity(g, new_capacity) ==
    [target |-> new_capacity, unprotect |-> {},
     calls |-> {<<"modify_spot_fleet_request", g>>}]

\* The resource-group contract's modify_target_capacity(new_target, dry_run)
\* of a spot fleet: a dry run makes no provider call.
SfrModifyTargetCapacity(g, new_capacity, dry_run) ==
    IF dry_run
    THEN [target |-> RawTarget(g), unprotect |-> {}, calls |-> {}]
    ELSE SfrSetTargetCapacity(g, new_capacity)

GroupModifyTargetCapacity(g, new_capacity, dry_run) ==
    IF Kind(g) = "asg"
    THEN AsgModifyTargetCapacity(g, new_capacity, FALSE, dry_run)
    ELSE SfrModifyTargetCapacity(g, new_capacity, dry_run)

\* protect_unowned_instances: only the ids the group lists reach the
\* backend's terminate_instances_by_id.
OwnedOnlyUnguarded(g, ids) == ids
OwnedOnly(g, ids) == {i \in ids : i \in SeqToSet(instance_ids(g))}

\* AutoScalingResourceGroup.terminate_instances_by_id: the ids handed to
\* ec2.terminate_instances.
AsgTerminateRequest(g, ids) == ids
\* SpotFleetResourceGroup.terminate_instances_by_id: the ids handed to
\* ec2.terminate_instances, batch by batch.
SfrTerminateRequest(g, ids) == ids

\* terminate_instances_by_id behind the guard.  Returns [sent, terminated,
\* target]: the ids sent to ec2.terminate_instances, those it reports
\* terminating, and the group's target afterwards: the spot fleet asks for
\* its target less the terminated weight, which the provider rejects (the
\* target stays) when that is negative.
\* For the record: the TargetCapacity the spot fleet asked for (asked, with
\* its termination policy), and whether the provider rejected it.
SfrTerminationPolicy(should_terminate) == IF should_terminate THEN "Default" ELSE "NoTermination"
SfrWeightTerminated(g, terminated) ==
    SumOver([i \in InstanceIds |-> market_weight(g, info[i].market)], terminated)
terminate_instances_by_id(g, ids, target) ==
    LET owned == OwnedOnly(g, ids)
        sent == IF Kind(g) = "asg" THEN AsgTerminateRequest(g, owned)
                ELSE SfrTerminateRequest(g, owned)
        terminated == sent \cap alive
        weight == SfrWeightTerminated(g, terminated)
    IN IF owned = {}
       THEN [sent |-> {}, terminated |-> {}, target |-> target,
             asked |-> <<>>, rejected |-> FALSE]
       ELSE [sent |-> sent, terminated |-> terminated,
             target |-> IF Kind(g) = "sfr" /\ target - weight >= 0
                        THEN target - weight ELSE target,
             asked |-> IF Kind(g) = "sfr"
                       THEN <<target - weight, SfrTerminationPolicy(FALSE)>> ELSE <<>>,
             rejected |-> Kind(g) = "sfr" /\ target - weight < 0]

\* ----------------------------------------------------- pool manager actions
NoOp == [op |-> "init", desired |-> 0, dry_run |-> FALSE, error |-> FALSE,
         pruneError |-> FALSE, ret |-> 0,
         poolBefore |-> 0, before |-> [g \in Groups |-> 0],
         fulfilledBefore |-> [g \in Groups |-> 0], staleBefore |-> {},
         newTargets |-> [g \in Groups |-> 0], calls |-> {}, requested |-> {},
         sent |-> {}, idle |-> {}, marked |-> {}, aliveBefore |-> {},
         resumed |-> FALSE,
         group |-> 0, capacity |-> 0, terminate_excess_capacity |-> FALSE,
         fails |-> "none", failed |-> {}, steps |-> <<>>, pruneCalls |-> <<>>, repeated |-> FALSE, log |-> <<>>, warned |-> FALSE, kwargs |-> 0,
         targetBefore |-> 0, idsBefore |-> <<>>, protectedBefore |-> {}]

\* Whether the previous request was a modify_target_capacity for the same
\* desired value that left part of its delta to later calls.
Resumes(desired) ==
    /\ last.op = "modify" /\ ~last.error /\ ~last.dry_run
    /\ last.desired = desired
    /\ last.ret # ClampToBounds(desired)

\* Whether the previous request was a modify_target_capacity for the same
\* desired value.
Repeats(desired) ==
    /\ last.op = "modify" /\ ~last.error /\ ~last.dry_run
    /\ last.desired = desired

\* The instances a pruning pass marked, by owning group.
MarkedOf(g, marked) == {i \in marked : _find_resource_group(i, alive) = g}

\* The pool has nothing to scale: every resource group is stale (or there is
\* none).
NoResourceGroupsAtAll == Groups = {}
NoResourceGroups == NonStaleGroups = {}

\* Whether modify_target_capacity calls prune_excess_fulfilled_capacity:
\* always, whatever the direction of the change, and in a dry run too.
PrunesOnlyToShrink(constrained, dry_run) == ~dry_run /\ constrained < PoolTarget
Prunes(constrained, dry_run) == TRUE

\* The groups whose modify_target_capacity is attempted when the provider
\* refuses the requests of the groups in `failing`: the failure of one group
\* is logged and the loop goes on to the next.
GroupsAttemptedUntilFailure(failing) == {g \in Groups : \A f \in failing : g <= f}
GroupsAttempted(failing) == Groups

\* What the loop over the group list did, in its order: each group attempted
\* with the outcome of its request.
ApplyLog(attempted, failing, dry_run) ==
    [k \in 1..Cardinality(attempted) |->
        <<SortedSeq(attempted)[k],
          IF dry_run THEN "dry_run"
          ELSE IF SortedSeq(attempted)[k] \in failing THEN "ResourceGroupError"
          ELSE "modified">>]

\* MesosPoolManager.modify_target_capacity(new_target_capacity, dry_run):
\* fails when no group is left to scale; otherwise constrains the target,
\* splits it over the groups, applies each group's new target in the order
\* of the list (the provider refusing the requests of the groups in
\* `failing`), prunes the excess fulfilled capacity (terminating what the
\* pass marked, per group, unless it raised or this is a dry run) and
\* returns the constrained target.
ModifyTargetCapacityFailing(desired, dry_run, failing) ==
    LET snapshot == [NoOp EXCEPT
            !.op = "modify", !.desired = desired, !.dry_run = dry_run,
            !.poolBefore = PoolTarget,
            !.before = [g \in Groups |-> target_capacity(g)],
            !.fulfilledBefore = [g \in Groups |-> fulfilled_capacity(g)],
            !.staleBefore = Groups \ NonStaleGroups,
            !.aliveBefore = alive,
            !.resumed = Resumes(desired),
                !.repeated = Repeats(desired)]
    IN IF NoResourceGroups
       THEN /\ last' = [snapshot EXCEPT !.error = TRUE]
            /\ UNCHANGED <<groups, alive, protected, info, cfg>>
       ELSE \E constrained \in {_constrain_target_capacity(desired)} :
            \E targets \in {_compute_new_resource_group_targets(constrained)} :
            \E attempted \in {GroupsAttempted(failing)} :
            \E mod \in {[g \in Groups |->
                           IF g \in attempted \ failing
                           THEN GroupModifyTargetCapacity(g, targets[g], dry_run)
                           ELSE [target |-> RawTarget(g), unprotect |-> {},
                                 calls |-> IF g \in attempted
                                           THEN GroupModifyTargetCapacity(g, targets[g], dry_run).calls
                                           ELSE {}]]} :
            \E pruning \in {IF Prunes(constrained, dry_run)
                             THEN MarkedForPruning(constrained, alive)
                             ELSE [marked |-> {}, error |-> FALSE, steps |-> <<>>]} :
            \E marked \in {pruning.marked} :
            \E term \in {[g \in Groups |->
                           IF dry_run \/ pruning.error
                           THEN [sent |-> {}, terminated |-> {}, target |-> mod[g].target,
                                 asked |-> <<>>, rejected |-> FALSE]
                           ELSE terminate_instances_by_id(g, MarkedOf(g, marked), mod[g].target)]} :
            \E gone \in {UNION {term[g].terminated : g \in Groups}} :
               /\ groups' = [g \in Groups |-> [groups[g] EXCEPT !.target = term[g].target]]
               /\ alive' = alive \ gone
               /\ protected' = (protected \ UNION {mod[g].unprotect : g \in Groups}) \ gone
               /\ last' = [snapshot EXCEPT
                       !.error = pruning.error,
                       !.pruneError = pruning.error,
                       !.ret = constrained,
                       !.newTargets = targets,
                       !.calls = UNION {mod[g].calls : g \in Groups}
                                 \cup {<<"terminate_instances", g>> : g \in {h \in Groups : term[h].sent # {}}},
                       !.sent = UNION {{<<g, i>> : i \in term[g].sent} : g \in Groups},
                       !.idle = IdleCandidates(alive),
                       !.marked = marked,
                       !.failed = failing,
                       !.steps = pruning.steps,
                       !.pruneCalls = IF Prunes(constrained, dry_run)
                                      THEN <<[new_target_capacity |-> constrained, dry_run |-> dry_run]>>
                                      ELSE <<>>,
                       !.log = ApplyLog(attempted, failing, dry_run)]
               /\ UNCHANGED <<info, cfg>>

ModifyTargetCapacity(desired, dry_run) == ModifyTargetCapacityFailing(desired, dry_run, {})

\* A caller (the pool manager, the command line) asks one group to terminate
\* instances by id.
TerminateInstancesById(g, ids) ==
    LET term == terminate_instances_by_id(g, ids, RawTarget(g))
    IN /\ groups' = [groups EXCEPT ![g].target = term.target]
       /\ alive' = alive \ term.terminated
       /\ protected' = protected \ term.terminated
       /\ last' = [NoOp EXCEPT
               !.op = "terminate", !.requested = {<<g, i>> : i \in ids},
               !.sent = {<<g, i>> : i \in term.sent},
               !.calls = IF term.sent = {} THEN {} ELSE {<<"terminate_instances", g>>},
               !.aliveBefore = alive,
               !.group = g, !.targetBefore = RawTarget(g),
               !.log = IF term.asked = <<>> THEN <<>>
                       ELSE << <<"modify_spot_fleet_request", term.asked[1], term.asked[2]>> >>,
               !.error = term.rejected]
       /\ UNCHANGED <<info, cfg>>

\* A caller asks one auto scaling group for a new capacity.  The provider
\* may refuse a request (fails names it): the call raises there, what was
\* done before stays done and nothing after it is attempted.
AsgModify(g, capacity, terminate_excess_capacity, dry_run, fails) ==
    \E mod \in {AsgModifyTargetCapacity(g, capacity, terminate_excess_capacity, dry_run)} :
    \E at \in {{k \in 1..Len(mod.log) : mod.log[k][1] = fails}} :
    \E log \in {IF at = {} THEN mod.log ELSE SubSeq(mod.log, 1, CHOOSE k \in at : TRUE)} :
       /\ fails # "none" => at # {}
       /\ groups' = [groups EXCEPT ![g].target =
                        IF \E k \in 1..Len(log) : log[k][1] = "set_desired_capacity" /\ fails # "set_desired_capacity"
                        THEN mod.target ELSE @]
       /\ protected' = IF \E k \in 1..Len(log) : log[k][1] = "set_instance_protection" /\ fails # "set_instance_protection"
                       THEN protected \ mod.unprotect ELSE protected
       /\ last' = [NoOp EXCEPT
               !.op = "asg_modify", !.group = g, !.capacity = capacity,
               !.terminate_excess_capacity = terminate_excess_capacity,
               !.dry_run = dry_run, !.fails = fails, !.error = fails # "none",
               !.log = log, !.warned = mod.warned, !.kwargs = mod.desired,
               !.targetBefore = RawTarget(g), !.idsBefore = instance_ids(g),
               !.protectedBefore = protected]
       /\ UNCHANGED <<alive, info, cfg>>

\* The provider scales an auto scaling group in: with more instances than
\* DesiredCapacity it terminates one that is not protected from scale-in.
ProviderScaleIn(g, i) ==
    /\ Kind(g) = "asg"
    /\ i \in Members(g, alive) \ protected
    /\ Cardinality(Members(g, alive)) > RawTarget(g)
    /\ alive' = alive \ {i}
    /\ last' = [NoOp EXCEPT !.op = "scale_in", !.group = g]
    /\ UNCHANGED <<groups, protected, info, cfg>>

\* The provider launches an instance into a group short of DesiredCapacity;
\* the group was told at construction to protect new instances.
ProviderLaunch(g, i) ==
    /\ Kind(g) = "asg"
    /\ i \in InstanceIds \ alive
    /\ info[i].owner = g
    /\ Cardinality(Members(g, alive)) < RawTarget(g)
    /\ alive' = alive \cup {i}
    /\ protected' = protected \cup {i}
    /\ last' = [NoOp EXCEPT !.op = "launch", !.group = g]
    /\ UNCHANGED <<groups, info, cfg>>

\* --------------------------------------------------------------- autoscaler
\* A resource request maps cpus, mem and disk to a quantity or to None.
Absent == -1
Resources == {"cpus", "mem", "disk"}
ResourceRequests ==
    {[cpus |-> c, mem |-> m, disk |-> Absent] :
        c \in {Absent} \cup 1..MaxRequest, m \in {Absent} \cup 1..MaxRequest}

\* What one call of Signal.evaluate does: it raises or returns a request.
NoData == [cpus |-> Absent, mem |-> Absent, disk |-> Absent]
EvalOutcomes ==
    {[raises |-> FALSE, request |-> r] : r \in ResourceRequests}
        \cup {[raises |-> TRUE, request |-> NoData]}

\* The agents the cluster manager knows, and what each offers of a resource.
KnownAgents == {i \in alive : info[i].hasIp /\ info[i].agentCpus >= 0}
AgentTotal(i, resource) ==
    IF resource = "cpus" THEN Cpus(info[i].market[1])
    ELSE IF resource = "mem" THEN 2 * Cpus(info[i].market[1])
    ELSE 8
\* MesosPoolManager.get_resource_total
get_resource_total(resource) ==
    SumOver([i \in InstanceIds |-> AgentTotal(i, resource)], KnownAgents)

\* MesosPoolManager.non_orphan_fulfilled_capacity: the fulfilled weight of
\* the instances that are not orphaned.
non_orphan_fulfilled_capacity ==
    SumOver([i \in InstanceIds |->
                IF info[i].owner \in Groups THEN market_weight(info[i].owner, info[i].market) ELSE 0],
            {i \in alive : info[i].owner \in Groups /\ MesosAgentState(i) # "orphaned"})

\* Fractions are pairs <<numerator, denominator>> with a positive denominator.
FracLess(a, b) == a[1] * b[2] < b[1] * a[2]

\* The resources a request asks for.
Requested(request) == {r \in Resources : request[r] # Absent}

\* _get_most_constrained_resource_for_request: the largest of
\* request[r] / get_resource_total(r), as a fraction.
MostConstrainedOf(request, totals) ==
    LET pct == [r \in Resources |-> <<request[r], totals[r]>>]
        best == CHOOSE r \in Requested(request) :
                    \A q \in Requested(request) : ~FracLess(pct[r], pct[q])
    IN pct[best]
ResourceTotals == [r \in Resources |-> get_resource_total(r)]
_get_most_constrained_resource_for_request(request) ==
    MostConstrainedOf(request, ResourceTotals)

\* The divisions of _compute_target_capacity and of
\* _get_most_constrained_resource_for_request that raise ZeroDivisionError.
ComputeRaises(request) ==
    /\ Requested(request) # {}
    /\ \/ \E r \in Requested(request) : get_resource_total(r) = 0
       \/ PoolTarget = 0

\* setpoint_distance >= margin, for new_target_capacity = nn / nd.
OutsideMarginStrictly(nn, nd, current) ==
    Abs(nn - current * nd) * auto.config.margin[2] > auto.config.margin[1] * current * nd
OutsideMargin(nn, nd, current) ==
    Abs(nn - current * nd) * auto.config.margin[2] >= auto.config.margin[1] * current * nd

\* new_target_capacity before the margin is applied:
\* non_orphan_fulfilled_capacity * usage_pct / setpoint.
ScaledTargetFrom(request, fulfilled, totals) ==
    LET usage == MostConstrainedOf(request, totals)
    IN <<fulfilled * usage[1] * auto.config.setpoint[2],
         usage[2] * auto.config.setpoint[1]>>
ScaledTargetOffTarget(request) ==
    ScaledTargetFrom(request, PoolTarget, ResourceTotals)
ScaledTarget(request) ==
    ScaledTargetFrom(request, non_orphan_fulfilled_capacity, ResourceTotals)

\* _compute_target_capacity, as a fraction: for the pool as the pool manager
\* reports it, and for any current target, fulfilled capacity and totals.
NoDataTargetFulfilled(current, fulfilled) == <<fulfilled, 1>>
NoDataTarget(current, fulfilled) == <<current, 1>>
ComputeTargetFrom(request, current, fulfilled, totals) ==
    IF Requested(request) = {} THEN NoDataTarget(current, fulfilled)
    ELSE LET new == ScaledTargetFrom(request, fulfilled, totals)
         IN IF OutsideMargin(new[1], new[2], current) THEN new ELSE <<current, 1>>
_compute_target_capacity(request) ==
    IF Requested(request) = {}
    THEN NoDataTarget(PoolTarget, non_orphan_fulfilled_capacity)
    ELSE LET new == ScaledTarget(request)
         IN IF OutsideMargin(new[1], new[2], PoolTarget) THEN new ELSE <<PoolTarget, 1>>

\* The signal the except branch of run evaluates.
FallbackSignalSame(configured) == configured
FallbackSignal(configured) == "default"
\* The timestamp the except branch passes to evaluate.
FallbackTimestampLater(timestamp) == timestamp + 1
FallbackTimestamp(timestamp) == timestamp
\* `if exception: raise exception` at the end of run.
ReraisesNever(exception) == FALSE
Reraises(exception) == exception

\* What run does once it has a resource request, in order: reload_state,
\* _compute_target_capacity, modify_target_capacity and, when the signal's
\* evaluate had raised, `raise exception`.
RunOrderRaiseFirst(exception) ==
    (IF exception THEN <<"raise">> ELSE <<>>)
        \o <<"reload_state", "_compute_target_capacity", "modify_target_capacity">>
RunOrder(exception) ==
    <<"reload_state", "_compute_target_capacity", "modify_target_capacity">>
        \o (IF exception THEN <<"raise">> ELSE <<>>)

\* The batch's health check after a run: one alert when the run raised.
AlertsEmitted(raised) == IF raised THEN 1 ELSE 0

NoTick == [op |-> "init", timestamp |-> 0, dry_run |-> FALSE, evals |-> <<>>,
           first |-> [raises |-> FALSE, request |-> NoData],
           second |-> [raises |-> FALSE, request |-> NoData],
           signalFailed |-> FALSE, request |-> NoData, reloaded |-> FALSE,
           nonOrphan |-> 0, totals |-> [r \in Resources |-> 0],
           current |-> 0, scaled |-> <<0, 1>>, target |-> <<0, 1>>, computed |-> FALSE,
           modified |-> FALSE, modifyArg |-> 0, raised |-> FALSE, alerts |-> 0,
           calls |-> <<>>]

\* Autoscaler.run(dry_run, timestamp), where first and second are what the
\* evaluate calls of this tick do (second is that of the except branch).
Run(timestamp, dry_run, first, second) ==
    LET evals == IF first.raises
                 THEN << <<auto.signal, timestamp>>,
                         <<FallbackSignal(auto.signal), FallbackTimestamp(timestamp)>> >>
                 ELSE << <<auto.signal, timestamp>> >>
        request == IF first.raises THEN second.request ELSE first.request
        started == [NoTick EXCEPT !.op = "run", !.timestamp = timestamp, !.dry_run = dry_run,
                                  !.evals = evals, !.signalFailed = first.raises,
                                  !.first = first,
                                  !.second = IF first.raises THEN second ELSE NoTick.second,
                                  !.current = PoolTarget,
                                  !.nonOrphan = non_orphan_fulfilled_capacity,
                                  !.totals = ResourceTotals]
    IN IF first.raises /\ second.raises
       THEN /\ tick' = [started EXCEPT !.raised = TRUE, !.alerts = AlertsEmitted(TRUE)]
            /\ UNCHANGED <<groups, alive, protected, info, cfg, last, auto>>
       ELSE IF ComputeRaises(request)
       THEN /\ tick' = [started EXCEPT !.request = request, !.reloaded = TRUE,
                                       !.raised = TRUE, !.alerts = AlertsEmitted(TRUE),
                                       !.calls = SubSeq(RunOrder(first.raises), 1, 2)]
            /\ UNCHANGED <<groups, alive, protected, info, cfg, last, auto>>
       ELSE \E target \in {_compute_target_capacity(request)} :
            \E raised \in {Reraises(first.raises)} :
               /\ ModifyTargetCapacity(target[1] \div target[2], dry_run)
               /\ tick' = [started EXCEPT
                       !.request = request, !.reloaded = TRUE, !.computed = TRUE,
                       !.scaled = IF Requested(request) = {} THEN <<PoolTarget, 1>>
                                  ELSE ScaledTarget(request),
                       !.target = target,
                       !.modified = TRUE, !.modifyArg = target[1] \div target[2],
                       !.raised = raised \/ last'.error,
                       !.alerts = AlertsEmitted(raised \/ last'.error),
                       !.calls = IF last'.error
                                 THEN SelectSeq(RunOrder(first.raises), LAMBDA call : call # "raise")
                                 ELSE RunOrder(first.raises)]
               /\ UNCHANGED auto

\* ------------------------------------------------------- signal connection
\* SOCK_MESG_SIZE, the size of a chunk and of a read, scaled down from 4096.
SOCK_MESG_SIZE == 4
ACK == 1

Take(s, n) == SubSeq(s, 1, Min(n, Len(s)))
Drop(s, n) == SubSeq(s, Min(n, Len(s)) + 1, Len(s))
RECURSIVE Concat(_)
Concat(ss) == IF ss = <<>> THEN <<>> ELSE Head(ss) \o Concat(Tail(ss))

\* struct.pack('>I', n): four bytes, most significant first; and the
\* worker's reading of them.
Pack(n) ==
    <<(n \div 16777216) % 256, (n \div 65536) % 256, (n \div 256) % 256, n % 256>>
Unpack(b) == ((b[1] * 256 + b[2]) * 256 + b[3]) * 256 + b[4]

\* metric_bytes[i:i + SOCK_MESG_SIZE] for i in range(0, len(metric_bytes),
\* SOCK_MESG_SIZE).
Chunks(bytes) ==
    [k \in 1..((Len(bytes) + SOCK_MESG_SIZE - 1) \div SOCK_MESG_SIZE) |->
        SubSeq(bytes, (k - 1) * SOCK_MESG_SIZE + 1, Min(k * SOCK_MESG_SIZE, Len(bytes)))]

\* json.loads(bytes)['Resources']: the bytes must be one complete document;
\* the value is what stands between its braces.
json_loads(bytes) ==
    IF /\ Len(bytes) >= 2
       /\ bytes[1] = 123  \* {
       /\ bytes[Len(bytes)] = 125  \* }
       /\ \A k \in 1..(Len(bytes) - 1) : bytes[k] # 125
    THEN [status |-> "returned", value |-> SubSeq(bytes, 2, Len(bytes) - 1)]
    ELSE [status |-> "JSONDecodeError", value |-> <<>>]

\* The end of evaluate_signal: given what the recv after the body returned
\* and what one more recv returns, check the ACK, strip it, read again when
\* nothing is left, and parse.
ReadResponse(response, again) ==
    IF Take(response, 1) # <<ACK>>
    THEN [status |-> "SignalConnectionError", value |-> <<>>]
    ELSE json_loads(IF Tail(response) # <<>> THEN Tail(response) ELSE again)

\* The payloads: metric_bytes of every length, and the worker's responses,
\* complete documents of every length.
Payloads == {[i \in 1..n |-> i] : n \in 0..MaxPayload}
Documents == {<<123>> \o [i \in 1..n |-> i] \o <<125>> : n \in 0..(MaxResponse - 2)}

NoConn == [pc |-> "closed", worker |-> "closed", payload |-> <<>>, reply |-> <<>>,
           ackLen |-> ACK, ackBody |-> ACK, wire |-> <<>>, chunks |-> <<>>,
           declared |-> 0, inbox |-> <<>>, first |-> <<>>, coalesced |-> FALSE,
           status |-> "none", value |-> <<>>]

\* signal_conn.send(len_metrics)
SendLength ==
    /\ conn.pc = "send_length"
    /\ conn' = [conn EXCEPT !.wire = Pack(Len(conn.payload)), !.pc = "recv_length_ack"]
    /\ UNCHANGED <<groups, alive, protected, info, cfg, last, auto, tick, load, batch, sim, asg>>

\* The worker reads the length and answers with one byte.
WorkerAckLength ==
    /\ conn.worker = "read_length"
    /\ Len(conn.wire) >= 4
    /\ conn' = [conn EXCEPT !.declared = Unpack(Take(conn.wire, 4)),
                            !.inbox = @ \o <<conn.ackLen>>,
                            !.worker = "read_body"]
    /\ UNCHANGED <<groups, alive, protected, info, cfg, last, auto, tick, load, batch, sim, asg>>

\* response = signal_conn.recv(SOCK_MESG_SIZE); if response != ACK: raise
RecvLengthAck ==
    /\ conn.pc = "recv_length_ack"
    /\ conn.inbox # <<>>
    /\ conn' = [conn EXCEPT
            !.inbox = Drop(@, SOCK_MESG_SIZE),
            !.pc = IF Take(conn.inbox, SOCK_MESG_SIZE) = <<ACK>> THEN "send_body" ELSE "done",
            !.status = IF Take(conn.inbox, SOCK_MESG_SIZE) = <<ACK>> THEN @
                       ELSE "SignalConnectionError"]
    /\ UNCHANGED <<groups, alive, protected, info, cfg, last, auto, tick, load, batch, sim, asg>>

\* The loop sending metric_bytes in chunks.
SendBody ==
    /\ conn.pc = "send_body"
    /\ conn' = [conn EXCEPT !.chunks = Chunks(conn.payload),
                            !.wire = @ \o Concat(Chunks(conn.payload)),
                            !.pc = "recv_response"]
    /\ UNCHANGED <<groups, alive, protected, info, cfg, last, auto, tick, load, batch, sim, asg>>

\* The worker has the whole body and answers with one byte ...
WorkerSendAck ==
    /\ conn.worker = "read_body"
    /\ conn.pc = "recv_response"
    /\ Len(conn.wire) - 4 >= conn.declared
    /\ conn' = [conn EXCEPT !.inbox = @ \o <<conn.ackBody>>, !.worker = "send_reply"]
    /\ UNCHANGED <<groups, alive, protected, info, cfg, last, auto, tick, load, batch, sim, asg>>

\* ... and then with its response.
WorkerSendReply ==
    /\ conn.worker = "send_reply"
    /\ conn' = [conn EXCEPT !.inbox = @ \o conn.reply, !.worker = "done"]
    /\ UNCHANGED <<groups, alive, protected, info, cfg, last, auto, tick, load, batch, sim, asg>>

\* response = signal_conn.recv(SOCK_MESG_SIZE) after the body: the ACK is
\* checked; what follows it in the same read is parsed, or the client reads
\* again.
RecvResponse ==
    /\ conn.pc = "recv_response"
    /\ conn.inbox # <<>>
    /\ \E response \in {Take(conn.inbox, SOCK_MESG_SIZE)} :
       \E outcome \in {ReadResponse(response, <<>>)} :
          conn' = [conn EXCEPT
              !.inbox = Drop(@, SOCK_MESG_SIZE),
              !.first = response,
              !.coalesced = Len(response) > 1,
              !.pc = IF Take(response, 1) = <<ACK>> /\ Tail(response) = <<>>
                     THEN "recv_again" ELSE "done",
              !.status = IF Take(response, 1) = <<ACK>> /\ Tail(response) = <<>>
                         THEN @ ELSE outcome.status,
              !.value = IF Take(response, 1) = <<ACK>> /\ Tail(response) = <<>>
                        THEN @ ELSE outcome.value]
    /\ UNCHANGED <<groups, alive, protected, info, cfg, last, auto, tick, load, batch, sim, asg>>

\* response[1:] or signal_conn.recv(SOCK_MESG_SIZE): the second read.
RecvAgain ==
    /\ conn.pc = "recv_again"
    /\ conn.inbox # <<>>
    /\ \E outcome \in {ReadResponse(conn.first, Take(conn.inbox, SOCK_MESG_SIZE))} :
          conn' = [conn EXCEPT !.inbox = Drop(@, SOCK_MESG_SIZE), !.pc = "done",
                               !.status = outcome.status, !.value = outcome.value]
    /\ UNCHANGED <<groups, alive, protected, info, cfg, last, auto, tick, load, batch, sim, asg>>

\* ------------------------------------------------------ loading the signals
\* A signal's configuration namespace: whether autoscale_signal.name is
\* there, the period, and for each required metric the keys it gives.
MetricKeys == {"name", "type", "minute_range"}
SignalConfigs ==
    [configured : BOOLEAN, period_minutes : {-1, 0, 10},
     required_metrics : {<<>>, <<MetricKeys>>, <<MetricKeys, {"name", "type"}>>,
                         <<{"type", "minute_range"}>>}]

\* read_signal_config(config_namespace, metrics_index): what it raises, or "ok".
read_signal_config(config) ==
    IF ~config.configured THEN "NoSignalConfiguredException"
    ELSE IF config.period_minutes <= 0 THEN "SignalValidationError"
    ELSE IF \E k \in 1..Len(config.required_metrics) :
               MetricKeys \ config.required_metrics[k] # {}
         THEN "SignalValidationError"
    ELSE "ok"

\* The exit statuses a worker process can end with, and what
\* signal_process.poll() returns: None while the process runs.
ExitStatuses == {-9, 0, 1}
None == [none |-> TRUE, value |-> 0]
poll(worker) == IF worker.state = "running" THEN None ELSE [none |-> FALSE, value |-> worker.returncode]

\* `if return_code:` -- the truth value of what poll() returned.
Truthy(return_code) == ~return_code.none /\ return_code.value # 0

NoWorker == [state |-> "none", returncode |-> 0]
NoLoad == [pc |-> "unloaded", which |-> "none", app |-> [configured |-> FALSE, period_minutes |-> 0, required_metrics |-> <<>>],
           default |-> [configured |-> FALSE, period_minutes |-> 0, required_metrics |-> <<>>],
           sock |-> "none", worker |-> NoWorker, pending |-> FALSE,
           atSpawn |-> "none", polled |-> FALSE, return_code |-> None, accepts |-> 0,
           error |-> "none", raised |-> "none", alerts |-> <<>>]

\* Signal(...) for the namespace of `which` begins: nothing of the previous
\* signal's connection is left.
StartSignal(l, which) ==
    [l EXCEPT !.pc = "read_signal_config", !.which = which, !.sock = "none",
              !.worker = NoWorker, !.pending = FALSE, !.atSpawn = "none",
              !.polled = FALSE, !.return_code = None, !.accepts = 0, !.error = "none"]

\* The check-ins _get_signal_for_app sends when Signal(...) raised `outcome`:
\* none for NoSignalConfiguredException, for any other exception one with
\* status=Status.WARNING and page=False.
sensu_checkin_always(outcome) == <<[status |-> "WARNING", page |-> FALSE]>>
sensu_checkin(outcome) ==
    IF outcome = "NoSignalConfiguredException" THEN <<>>
    ELSE <<[status |-> "WARNING", page |-> FALSE]>>

\* How Autoscaler.__init__ goes on once Signal(...) returned or raised
\* `outcome`: the default signal is built outside any try block; the
\* application's signal is built by _get_signal_for_app, which returns the
\* default signal when no signal is configured, and on any other exception
\* checks in a warning and returns the default signal too.
SignalLoaded(outcome) ==
    IF load.which = "default"
    THEN IF outcome = "ok"
         THEN /\ load' = StartSignal(load, "app")
              /\ UNCHANGED auto
         ELSE /\ load' = [load EXCEPT !.pc = "raised", !.error = outcome, !.raised = outcome]
              /\ UNCHANGED auto
    ELSE IF outcome = "ok"
         THEN /\ load' = [load EXCEPT !.pc = "done"]
              /\ auto' = [auto EXCEPT !.signal = "app"]
         ELSE /\ load' = [load EXCEPT !.pc = "done", !.error = outcome,
                                      !.alerts = @ \o sensu_checkin(outcome)]
              /\ auto' = [auto EXCEPT !.signal = "default"]

Frame == UNCHANGED <<groups, alive, protected, info, cfg, last, tick, conn, batch, sim, asg>>

\* Autoscaler.__init__ up to the construction of the default signal.
Construct ==
    /\ load.pc = "unloaded"
    /\ load' = StartSignal(load, "default")
    /\ UNCHANGED auto
    /\ Frame

\* The signal reads and validates its configuration.
ReadSignalConfig ==
    /\ load.pc = "read_signal_config"
    /\ \E outcome \in {read_signal_config(IF load.which = "app" THEN load.app ELSE load.default)} :
          IF outcome = "ok"
          THEN load' = [load EXCEPT !.pc = "bind"] /\ UNCHANGED auto
          ELSE SignalLoaded(outcome)
    /\ Frame

\* load_signal_connection: s.bind(...); s.listen(1)
Listen ==
    /\ load.pc = "bind"
    /\ load' = [load EXCEPT !.sock = "listening", !.pc = "Popen"]
    /\ UNCHANGED auto
    /\ Frame

\* load_signal_connection: subprocess.Popen(...)
Popen ==
    /\ load.pc = "Popen"
    /\ load' = [load EXCEPT !.worker.state = "running", !.atSpawn = load.sock, !.pc = "sleep"]
    /\ UNCHANGED auto
    /\ Frame

\* The worker connects to the listening socket.
WorkerConnect ==
    /\ load.worker.state = "running"
    /\ load.sock = "listening"
    /\ ~load.pending
    /\ load.accepts = 0
    /\ load' = [load EXCEPT !.pending = TRUE]
    /\ UNCHANGED auto
    /\ Frame

\* The worker process ends.
WorkerExit ==
    /\ load.worker.state = "running"
    /\ load.pc \in {"sleep", "accept"}
    /\ \E status \in ExitStatuses : load' = [load EXCEPT !.worker = [state |-> "exited", returncode |-> status]]
    /\ UNCHANGED auto
    /\ Frame

\* load_signal_connection: time.sleep(2); return_code = signal_process.poll();
\* if return_code: raise SignalConnectionError
Poll ==
    /\ load.pc = "sleep"
    /\ \E return_code \in {poll(load.worker)} :
          IF Truthy(return_code)
          THEN \E l \in {[load EXCEPT !.polled = TRUE, !.return_code = return_code]} :
                  /\ load.which = "default" =>
                        load' = [l EXCEPT !.pc = "raised", !.error = "SignalConnectionError",
                                          !.raised = "SignalConnectionError"]
                  /\ load.which = "app" =>
                        load' = [l EXCEPT !.pc = "done", !.error = "SignalConnectionError",
                                          !.alerts = @ \o sensu_checkin("SignalConnectionError")]
                  /\ IF load.which = "app" THEN auto' = [auto EXCEPT !.signal = "default"]
                     ELSE UNCHANGED auto
          ELSE /\ load' = [load EXCEPT !.polled = TRUE, !.return_code = return_code, !.pc = "accept"]
               /\ UNCHANGED auto
    /\ Frame

\* load_signal_connection: signal_conn, __ = s.accept() returns the pending
\* connection.
Accept ==
    /\ load.pc = "accept"
    /\ load.pending
    /\ \E l \in {[load EXCEPT !.pending = FALSE, !.accepts = @ + 1]} :
          IF load.which = "default"
          THEN load' = StartSignal(l, "app") /\ UNCHANGED auto
          ELSE load' = [l EXCEPT !.pc = "done"] /\ auto' = [auto EXCEPT !.signal = "app"]
    /\ Frame

\* load_signal_connection: s.accept() with nothing connecting within
\* SOCKET_TIMEOUT_SECONDS raises socket.timeout.
AcceptTimeout ==
    /\ load.pc = "accept"
    /\ ~load.pending
    /\ load.worker.state # "running"
    /\ SignalLoaded("timeout")
    /\ Frame

\* ------------------------------------------------------------ the batch loop
\* Autoscaler.run_frequency
run_frequency(period_minutes) == period_minutes * 60

\* What the loop sleeps after a tick: to the next multiple of the run
\* frequency.
SleepTimeWholePeriod(frequency, now) == frequency
SleepTime(frequency, now) == frequency - (now % frequency)

\* How long a tick can take: no time, a few seconds, longer than a period.
RunTimes == {0, 7, 650}

NoBatch == [pc |-> "stopped", running |-> FALSE, period_minutes |-> 1, dry_run |-> FALSE,
            now |-> 0, iterations |-> 0, calls |-> <<>>, active |-> 0,
            returnedAt |-> 0, sleptAt |-> 0, slept |-> 0, overlapped |-> FALSE, early |-> FALSE]

BatchFrame == UNCHANGED <<groups, alive, protected, info, cfg, last, auto, tick, conn, load, sim, asg>>

\* while self.running: -- the loop ends once the batch was told to stop.
CheckRunning ==
    /\ batch.pc = "while"
    /\ batch' = [batch EXCEPT !.pc = IF batch.running /\ batch.iterations < MaxTicks
                                     THEN "run" ELSE "stopped"]
    /\ BatchFrame

\* self.autoscaler.run(dry_run=self.options.dry_run) is called ...
RunCalled ==
    /\ batch.pc = "run"
    /\ batch' = [batch EXCEPT !.pc = "running", !.calls = Append(@, batch.dry_run),
                              !.active = @ + 1,
                              !.overlapped = @ \/ batch.active > 0,
                              !.early = @ \/ batch.now < batch.returnedAt]
    /\ BatchFrame

\* ... and returns some time later.
RunReturns ==
    /\ batch.pc = "running"
    /\ \E taken \in RunTimes :
          batch' = [batch EXCEPT !.pc = "sleep", !.active = @ - 1,
                                 !.now = @ + taken, !.returnedAt = batch.now + taken]
    /\ BatchFrame

\* The loop reads the clock and sleeps to the next multiple of the run
\* frequency.
Sleep ==
    /\ batch.pc = "sleep"
    /\ \E seconds \in {SleepTime(run_frequency(batch.period_minutes), batch.now)} :
          batch' = [batch EXCEPT !.pc = "while", !.iterations = @ + 1,
                                 !.sleptAt = batch.now, !.slept = seconds,
                                 !.now = @ + seconds]
    /\ BatchFrame

\* The batch is told to stop.
Stop ==
    /\ batch.running
    /\ batch.pc # "stopped"
    /\ batch' = [batch EXCEPT !.running = FALSE]
    /\ BatchFrame

\* ------------------------------------------------ the simulated spot fleet
\* SimulatedSpotFleetResourceGroup: the markets of its launch specifications,
\* each with a SpotMarketConfig(bid_price, weight); the simulator's current
\* price per market; its instances in the order they were launched.
SpotMarkets == 1..NumMarkets
SpotMarketConfigs == [SpotMarkets -> {[bid_price |-> 2, weight |-> w] : w \in 1..MaxWeight}]
InstancePrices == {1, 3}

\* Fractions are kept exact as integer multiples of 1 / Scale: the residuals
\* divide by the number of available markets, the corrections by the number
\* of markets that remain.
RECURSIVE Factorial(_)
Factorial(n) == IF n <= 1 THEN 1 ELSE n * Factorial(n - 1)
Scale == Factorial(NumMarkets)

\* market_size and market_capacities of the simulated cluster.
market_size(instances, market) ==
    Cardinality({k \in 1..Len(instances) : instances[k].market = market})
market_capacities(s) ==
    [market \in SpotMarkets |-> market_size(s.instances, market) * s._instance_types[market].weight]

\* fulfilled_capacity: sum(self.market_capacities.values())
SimFulfilledCapacity(s) == SumOver(market_capacities(s), SpotMarkets)

\* _find_available_markets: the markets whose bid price is no less than the
\* current price.
_find_available_markets(s) ==
    {market \in SpotMarkets : s._instance_types[market].bid_price >= s.instance_prices[market]}

\* _compute_market_residuals: per available market, target / len(markets)
\* less the market's capacity (in 1 / Scale), sorted by residual, then by
\* price; sorted() keeps the order of the launch specifications on ties.
residual(s, target, markets, market) ==
    (target * Scale) \div Cardinality(markets) - market_capacities(s)[market] * Scale
ResidualBefore(s, target, markets, a, b) ==
    LET ra == residual(s, target, markets, a)
        rb == residual(s, target, markets, b)
    IN \/ ra < rb
       \/ ra = rb /\ s.instance_prices[a] < s.instance_prices[b]
       \/ ra = rb /\ s.instance_prices[a] = s.instance_prices[b] /\ a < b
RECURSIVE SortResiduals(_, _, _, _)
SortResiduals(s, target, markets, left) ==
    IF left = {} THEN <<>>
    ELSE LET first == CHOOSE a \in left :
                          \A b \in left \ {a} : ResidualBefore(s, target, markets, a, b)
         IN <<first>> \o SortResiduals(s, target, markets, left \ {first})
_compute_market_residuals(s, target, markets) ==
    LET order == SortResiduals(s, target, markets, markets)
    IN [i \in 1..Len(order) |->
           [market |-> order[i], residual |-> residual(s, target, markets, order[i])]]

\* _get_new_market_counts: the loop over the sorted residuals.  `acc` holds
\* the residual correction (in 1 / Scale) and new_market_counts as the
\* markets in the order they were entered (order) with their counts (num).
RECURSIVE NewMarketCounts(_, _, _, _)
NewMarketCounts(s, residuals, i, acc) ==
    IF i > Len(residuals) THEN acc
    ELSE LET remaining_markets == Len(residuals) - i
             market == residuals[i].market
         IN IF residuals[i].residual < acc.residual_correction
            THEN NewMarketCounts(s, residuals, i + 1,
                    [acc EXCEPT !.residual_correction =
                        IF remaining_markets > 0
                        THEN @ + (@ - residuals[i].residual) \div remaining_markets ELSE @])
            ELSE LET res == residuals[i].residual - acc.residual_correction
                     weight == s._instance_types[market].weight * Scale
                     remainder == res % weight
                     instance_num == IF remainder > 0 THEN res \div weight + 1 ELSE res \div weight
                     overflow == instance_num * weight - res
                 IN NewMarketCounts(s, residuals, i + 1,
                       [residual_correction |->
                            IF remainder > 0 /\ remaining_markets > 0
                            THEN acc.residual_correction + overflow \div remaining_markets
                            ELSE acc.residual_correction,
                        order |-> IF instance_num # 0 THEN Append(acc.order, market) ELSE acc.order,
                        num |-> IF instance_num # 0
                                THEN [acc.num EXCEPT ![market] = instance_num + market_size(s.instances, market)]
                                ELSE acc.num])
_get_new_market_counts(s, target) ==
    NewMarketCounts(s, _compute_market_residuals(s, target, _find_available_markets(s)), 1,
                    [residual_correction |-> 0, order |-> <<>>,
                     num |-> [market \in SpotMarkets |-> market_size(s.instances, market)]])

\* modify_size of the simulated cluster: every market of new_market_counts
\* is brought to its count, in the order of the dictionary; the new
\* instances are launched now, after all those the fleet has.
RECURSIVE Launch(_, _, _)
Launch(s, market, n) ==
    IF n <= 0 THEN s
    ELSE Launch([s EXCEPT !.instances = Append(@, [id |-> s.next_id, market |-> market]),
                          !.next_id = @ + 1], market, n - 1)
RECURSIVE modify_size(_, _, _)
modify_size(s, new_market_counts, k) ==
    IF k > Len(new_market_counts.order) THEN s
    ELSE LET market == new_market_counts.order[k]
         IN modify_size(Launch(s, market, new_market_counts.num[market] - market_size(s.instances, market)),
                        new_market_counts, k + 1)

\* _increase_capacity_to_target
_increase_capacity_to_target(s, target) ==
    modify_size(s, _get_new_market_counts(s, target), 1)

\* terminate_instances_by_id: the instances leave the cluster; capacity is
\* restored when what is left is below the target.
RestoresNever(s) == FALSE
Restores(s) == SimFulfilledCapacity(s) < s._target_capacity
SimTerminateInstancesById(s, ids) ==
    LET kept == SelectSeq(s.instances, LAMBDA instance : instance.id \notin ids)
        left == [s EXCEPT !.instances = kept]
    IN IF Restores(left) THEN _increase_capacity_to_target(left, left._target_capacity) ELSE left

\* modify_target_capacity with terminate_excess_capacity: the walk over the
\* instances in order of launch, skipping those heavier than what is left
\* of the excess.
SkipsNever(weight, adjusted_capacity) == FALSE
Skips(weight, adjusted_capacity) == weight > adjusted_capacity
RECURSIVE RemovedIds(_, _, _, _)
RemovedIds(s, k, adjusted_capacity, removed_ids) ==
    IF k > Len(s.instances) THEN removed_ids
    ELSE LET weight == s._instance_types[s.instances[k].market].weight
         IN IF Skips(weight, adjusted_capacity)
            THEN RemovedIds(s, k + 1, adjusted_capacity, removed_ids)
            ELSE IF adjusted_capacity - weight <= 0
            THEN Append(removed_ids, s.instances[k].id)
            ELSE RemovedIds(s, k + 1, adjusted_capacity - weight, Append(removed_ids, s.instances[k].id))
SimModifyTargetCapacity(s, target, terminate_excess_capacity) ==
    LET curr_capacity == SimFulfilledCapacity(s)
        set == [s EXCEPT !._target_capacity = target]
    IN IF curr_capacity > target /\ terminate_excess_capacity
       THEN SimTerminateInstancesById(set, SeqToSet(RemovedIds(set, 1, curr_capacity - target, <<>>)))
       ELSE IF curr_capacity < target
       THEN _increase_capacity_to_target(set, target)
       ELSE set

NoSimCall == [op |-> "none", target_capacity |-> 0, terminate_excess_capacity |-> FALSE,
              ids |-> {}, removed_ids |-> <<>>, instances |-> <<>>, _target_capacity |-> 0]
NoSim == [_instance_types |-> [market \in SpotMarkets |-> [bid_price |-> 0, weight |-> 1]],
          instance_prices |-> [market \in SpotMarkets |-> 1], instances |-> <<>>, next_id |-> 1,
          _target_capacity |-> 0, call |-> NoSimCall]

SimFrame == UNCHANGED <<groups, alive, protected, info, cfg, last, auto, tick, conn, load, batch, asg>>

\* A caller sets the fleet's target.
SimModify ==
    /\ sim.next_id <= MaxLaunched
    /\ \E target \in 0..MaxSimTarget, terminate_excess_capacity \in BOOLEAN :
          sim' = [SimModifyTargetCapacity(sim, target, terminate_excess_capacity) EXCEPT
                     !.call = [NoSimCall EXCEPT
                         !.op = "modify_target_capacity", !.target_capacity = target,
                         !.terminate_excess_capacity = terminate_excess_capacity,
                         !.removed_ids = IF SimFulfilledCapacity(sim) > target
                                         THEN RemovedIds(sim, 1, SimFulfilledCapacity(sim) - target, <<>>)
                                         ELSE <<>>,
                         !.instances = sim.instances, !._target_capacity = sim._target_capacity]]
    /\ SimFrame

\* A caller terminates some of the fleet's instances.
SimTerminate ==
    /\ sim.next_id <= MaxLaunched
    /\ \E ids \in SUBSET {sim.instances[k].id : k \in 1..Len(sim.instances)} :
          /\ ids # {}
          /\ sim' = [SimTerminateInstancesById(sim, ids) EXCEPT
                        !.call = [NoSimCall EXCEPT
                            !.op = "terminate_instances_by_id", !.ids = ids,
                            !.instances = sim.instances, !._target_capacity = sim._target_capacity]]
    /\ SimFrame

\* The simulator's clock moves on to a time with other spot prices.
PriceChange ==
    /\ \E instance_prices \in [SpotMarkets -> InstancePrices] :
          /\ instance_prices # sim.instance_prices
          /\ sim' = [sim EXCEPT !.instance_prices = instance_prices, !.call = NoSimCall]
    /\ SimFrame

\* ------------------------------------------------------------- the ASG caches
\* AutoScalingResourceGroup reads the provider through timed caches:
\* _group_config holds the group's description and instance_ids the list
\* made from it, each for CACHE_TTL_SECONDS after it was computed.
describe_auto_scaling_groups(g) ==
    [DesiredCapacity |-> groups[g].target, MinSize |-> groups[g].minSize,
     MaxSize |-> groups[g].maxSize, Instances |-> instance_ids(g)]

\* timed_cached_property: the value held while the entry is fresh, else the
\* value computed now, which the entry then holds.
timed_cached_property(entry, computed) == IF entry.cached THEN entry.value ELSE computed
Held(value) == [cached |-> TRUE, value |-> value]
Empty(value) == [cached |-> FALSE, value |-> value]

NoAsgCall == [op |-> "none", capacity |-> 0, terminate_excess_capacity |-> FALSE, dry_run |-> FALSE,
              kwargs |-> 0, target_diff |-> 0, targetBefore |-> 0, unprotected |-> <<>>,
              value |-> 0, instance_ids |-> <<>>, calls |-> <<>>, terminated_ids |-> <<>>]
NoAsg == [_group_config |-> Empty([DesiredCapacity |-> 0, MinSize |-> 0, MaxSize |-> 0, Instances |-> <<>>]),
          instance_ids |-> Empty(<<>>), sent |-> None, call |-> NoAsgCall]

AsgFrame == UNCHANGED <<auto, tick, conn, load, batch, sim>>

\* AutoScalingResourceGroup.modify_target_capacity of group g, every read
\* going through the caches.
AsgCachedModify(g, capacity, terminate_excess_capacity, dry_run) ==
    \E config \in {timed_cached_property(asg._group_config, describe_auto_scaling_groups(g))} :
    \E rounded \in {IF capacity > config.MaxSize THEN config.MaxSize
                    ELSE IF capacity < config.MinSize THEN config.MinSize ELSE capacity} :
    \E target_diff \in {config.DesiredCapacity - rounded} :
    \E unprotects \in {~dry_run /\ target_diff > 0 /\ terminate_excess_capacity} :
    \E ids \in {timed_cached_property(asg.instance_ids, config.Instances)} :
    \E first \in {IF unprotects THEN AsgFirstInstances(ids, target_diff) ELSE <<>>} :
       /\ groups' = [groups EXCEPT ![g].target = IF dry_run THEN @ ELSE rounded]
       /\ protected' = protected \ SeqToSet(first)
       /\ asg' = [asg EXCEPT
               !._group_config = Held(config),
               !.instance_ids = IF unprotects THEN Held(ids) ELSE @,
               !.sent = IF dry_run THEN @ ELSE [none |-> FALSE, value |-> rounded],
               !.call = [NoAsgCall EXCEPT
                   !.op = "modify_target_capacity", !.capacity = capacity,
                   !.terminate_excess_capacity = terminate_excess_capacity, !.dry_run = dry_run,
                   !.kwargs = rounded, !.target_diff = target_diff,
                   !.targetBefore = groups[g].target, !.unprotected = first]]
       /\ last' = [NoOp EXCEPT !.op = "asg_cached_modify", !.group = g]
       /\ UNCHANGED <<alive, info, cfg>>
       /\ AsgFrame

\* A caller reads the group's target_capacity.
AsgReadTargetCapacity(g) ==
    \E config \in {timed_cached_property(asg._group_config, describe_auto_scaling_groups(g))} :
       /\ asg' = [asg EXCEPT !._group_config = Held(config),
                             !.call = [NoAsgCall EXCEPT !.op = "target_capacity",
                                                        !.value = config.DesiredCapacity]]
       /\ UNCHANGED <<groups, alive, protected, info, cfg, last>>
       /\ AsgFrame

\* CACHE_TTL_SECONDS pass since a cached value was computed.
CacheExpires ==
    /\ asg._group_config.cached \/ asg.instance_ids.cached
    /\ \E config \in {FALSE, asg._group_config.cached}, ids \in {FALSE, asg.instance_ids.cached} :
          /\ <<config, ids>> # <<asg._group_config.cached, asg.instance_ids.cached>>
          /\ asg' = [asg EXCEPT !._group_config.cached = config, !.instance_ids.cached = ids,
                                !.call = NoAsgCall]
    /\ UNCHANGED <<groups, alive, protected, info, cfg, last>>
    /\ AsgFrame

\* AutoScalingResourceGroup.terminate_instances_by_id: one
\* ec2.terminate_instances call per _BATCH_TERM_SIZE ids of the list, each
\* call made with InstanceIds=instance_ids; each response lists the
\* instances of the call that the provider is terminating.
RECURSIVE AsgTerminateCalls(_, _)
AsgTerminateCalls(instance_id_list, i) ==
    IF i >= Len(instance_id_list) THEN <<>>
    ELSE <<instance_id_list>> \o AsgTerminateCalls(instance_id_list, i + _BATCH_TERM_SIZE)
RECURSIVE AsgTerminatedIds(_, _, _)
AsgTerminatedIds(calls, k, live) ==
    IF k > Len(calls) THEN <<>>
    ELSE SelectSeq(calls[k], LAMBDA i : i \in live) \o AsgTerminatedIds(calls, k + 1, live)
AsgTerminateInstancesById(g, instance_id_list) ==
    \E owned \in {SelectSeq(instance_id_list, LAMBDA i : i \in OwnedOnly(g, SeqToSet(instance_id_list)))} :
    \E calls \in {AsgTerminateCalls(owned, 0)} :
       /\ alive' = alive \ SeqToSet(owned)
       /\ protected' = protected \ SeqToSet(owned)
       /\ asg' = [asg EXCEPT !.call = [NoAsgCall EXCEPT
                      !.op = "terminate_instances_by_id", !.instance_ids = owned,
                      !.calls = calls, !.terminated_ids = AsgTerminatedIds(calls, 1, alive)]]
       /\ last' = [NoOp EXCEPT !.op = "asg_terminate", !.group = g]
       /\ UNCHANGED <<groups, info, cfg>>
       /\ AsgFrame

\* ------------------------------------------------------------ initial states
\* Pool configurations: one whose churn caps never bind, one whose caps do.
\* The pool mixes both backends (even ids are auto scaling groups, odd ids
\* are spot fleets) or holds spot fleets only.
MixedPool == [g \in Groups |-> IF g % 2 = 0 THEN "asg" ELSE "sfr"]
SpotFleetPool == [g \in Groups |-> "sfr"]
PoolConfigs ==
    { [min_capacity |-> 2, max_capacity |-> 5, max_weight_to_add |-> 100, max_weight_to_remove |-> 100,
       resource_groups |-> MixedPool],
      [min_capacity |-> 0, max_capacity |-> 6, max_weight_to_add |-> 3, max_weight_to_remove |-> 2,
       resource_groups |-> MixedPool] }
SpotFleetPoolConfigs == {[c EXCEPT !.resource_groups = SpotFleetPool] : c \in PoolConfigs}

\* The fleet: instances alternate between group 1 (a spot fleet) and group 2
\* (an auto scaling group); the last one belongs to no group of the pool.
OwnerOf(i) == IF i = NumInstances THEN 0 ELSE ((i - 1) % 2) + 1
MarketOf(i) ==
    IF OwnerOf(i) = 0 THEN LargeA
    ELSE IF Kind(OwnerOf(i)) = "sfr" THEN (IF i % 4 = 1 THEN NanoA ELSE LargeA)
    ELSE (IF i % 4 = 2 THEN LargeA ELSE LargeB)

\* What AWS and Mesos report of instance i when its agent is in state st.
InstanceInfo(i, st) ==
    [owner |-> OwnerOf(i), market |-> MarketOf(i),
     hasIp |-> st # "unknown",
     agentCpus |-> IF st = "idle" THEN 0 ELSE IF st = "running" THEN 1 ELSE -1]
AgentStates == {"unknown", "orphaned", "idle", "running"}
Fleets == {[i \in InstanceIds |-> InstanceInfo(i, st[i])] : st \in [InstanceIds -> AgentStates]}
AllIdle == [i \in InstanceIds |-> InstanceInfo(i, "idle")]

\* The autoscaling configurations: setpoint and setpoint_margin, as fractions.
AutoscalingConfigs ==
    { [setpoint |-> <<7, 10>>, margin |-> <<1, 10>>],
      [setpoint |-> <<1, 2>>, margin |-> <<1, 4>>] }
NoAutoscaler == [signal |-> "default", config |-> [setpoint |-> <<7, 10>>, margin |-> <<1, 10>>]]

\* Any combination of group targets, no instance running yet.
InitTargets ==
    /\ cfg \in PoolConfigs
    /\ groups \in [Groups -> [target : 0..MaxTarget, stale : BOOLEAN, minSize : {0}, maxSize : {5}]]
    /\ \A g \in Groups : Kind(g) = "asg" => ~groups[g].stale
    /\ alive = {}
    /\ protected = {}
    /\ info = AllIdle
    /\ last = NoOp
    /\ auto = NoAutoscaler
    /\ tick = NoTick
    /\ conn = NoConn
    /\ batch = NoBatch
    /\ sim = NoSim
    /\ asg = NoAsg
    /\ load = NoLoad

\* A running fleet: each agent in any state, at most one instance already
\* gone, the auto scaling groups' instances protected from scale-in, each
\* group's target at what its instances fulfil.
InitFleet ==
    /\ cfg \in PoolConfigs
    /\ alive \in {InstanceIds} \cup {InstanceIds \ {i} : i \in InstanceIds}
    /\ info \in Fleets
    /\ protected = {i \in alive : OwnerOf(i) # 0 /\ Kind(OwnerOf(i)) = "asg"}
    /\ groups = [g \in Groups |->
                   [target |-> FulfilledOf(g, alive), stale |-> FALSE,
                    minSize |-> 0, maxSize |-> 5]]
    /\ last = NoOp
    /\ auto = NoAutoscaler
    /\ tick = NoTick
    /\ conn = NoConn
    /\ batch = NoBatch
    /\ sim = NoSim
    /\ asg = NoAsg
    /\ load = NoLoad

\* An autoscaler over a running fleet, with an application signal or with
\* the default signal only.
InitAuto ==
    /\ cfg \in {c \in PoolConfigs : c.min_capacity = 0}
    /\ alive = InstanceIds
    /\ info \in Fleets
    /\ protected = {i \in alive : OwnerOf(i) # 0 /\ Kind(OwnerOf(i)) = "asg"}
    /\ groups = [g \in Groups |->
                   [target |-> FulfilledOf(g, alive), stale |-> FALSE,
                    minSize |-> 0, maxSize |-> 5]]
    /\ last = NoOp
    /\ auto \in [signal : {"app", "default"}, config : AutoscalingConfigs]
    /\ tick = NoTick
    /\ conn = NoConn
    /\ batch = NoBatch
    /\ sim = NoSim
    /\ asg = NoAsg
    /\ load = NoLoad

Timestamps == {10}

\* The id lists a caller hands to terminate_instances_by_id.
IdLists == {ids \in SUBSET InstanceIds : Cardinality(ids) \in {1, 2}}

Next ==
    \/ \E desired \in 0..MaxDesired, dry_run \in BOOLEAN :
          ModifyTargetCapacity(desired, dry_run) /\ UNCHANGED <<auto, tick, conn, load, batch, sim, asg>>

Spec == InitTargets /\ [][Next]_vars

\* One request to the running fleet: a pool-level modify_target_capacity or
\* a group-level terminate_instances_by_id.
NextFleet ==
    \/ /\ last.op = "init"
       /\ \E desired \in 0..MaxDesired, dry_run \in BOOLEAN :
             ModifyTargetCapacity(desired, dry_run) /\ UNCHANGED <<auto, tick, conn, load, batch, sim, asg>>
    \/ /\ last.op = "init"
       /\ \E g \in Groups, ids \in IdLists :
             TerminateInstancesById(g, ids) /\ UNCHANGED <<auto, tick, conn, load, batch, sim, asg>>

SpecFleet == InitFleet /\ [][NextFleet]_vars

\* A pool of spot fleets, any of them stale (cancelled), whose instances
\* are still running and idle; and one modify_target_capacity request to it.
InitStale ==
    /\ cfg \in SpotFleetPoolConfigs
    /\ groups \in [Groups -> [target : {0, MaxTarget}, stale : BOOLEAN, minSize : {0}, maxSize : {5}]]
    /\ alive = InstanceIds
    /\ protected = {}
    /\ info = AllIdle
    /\ last = NoOp
    /\ auto = NoAutoscaler
    /\ tick = NoTick
    /\ conn = NoConn
    /\ batch = NoBatch
    /\ sim = NoSim
    /\ asg = NoAsg
    /\ load = NoLoad

\* One auto scaling group (group 2) just constructed: its instances are
\* protected from scale-in; its DesiredCapacity is anywhere in its bounds.
AsgSizes == {[minSize |-> 0, maxSize |-> 5], [minSize |-> 1, maxSize |-> 3]}
AsgFleet == [i \in InstanceIds |-> [owner |-> 2, market |-> LargeA, hasIp |-> TRUE, agentCpus |-> 0]]
InitAsg ==
    /\ cfg \in {c \in PoolConfigs : c.min_capacity = 0}
    /\ info = AsgFleet
    /\ alive \in SUBSET InstanceIds
    /\ protected = alive
    /\ \E size \in AsgSizes, target \in 0..5 :
          /\ target >= size.minSize /\ target <= size.maxSize
          /\ groups = [g \in Groups |->
                [target |-> IF g = 2 THEN target ELSE 0, stale |-> FALSE,
                 minSize |-> IF g = 2 THEN size.minSize ELSE 0,
                 maxSize |-> IF g = 2 THEN size.maxSize ELSE 5]]
    /\ last = NoOp
    /\ auto = NoAutoscaler
    /\ tick = NoTick
    /\ conn = NoConn
    /\ batch = NoBatch
    /\ sim = NoSim
    /\ asg = NoAsg
    /\ load = NoLoad

ProviderFailures == {"none", "set_instance_protection", "set_desired_capacity"}

NextAsg ==
    \/ \E capacity \in 0..MaxDesired, terminate_excess_capacity \in BOOLEAN,
          dry_run \in BOOLEAN, fails \in ProviderFailures :
          AsgModify(2, capacity, terminate_excess_capacity, dry_run, fails)
             /\ UNCHANGED <<auto, tick, conn, load, batch, sim, asg>>
    \/ \E ids \in IdLists : TerminateInstancesById(2, ids) /\ UNCHANGED <<auto, tick, conn, load, batch, sim, asg>>
    \/ \E i \in InstanceIds : ProviderScaleIn(2, i) /\ UNCHANGED <<auto, tick, conn, load, batch, sim, asg>>
    \/ \E i \in InstanceIds : ProviderLaunch(2, i) /\ UNCHANGED <<auto, tick, conn, load, batch, sim, asg>>

SpecAsg == InitAsg /\ [][NextAsg]_vars

\* One spot fleet (group 1) with its instances running; what it has may
\* exceed its target (weights that do not divide it, a target lowered from
\* outside); and requests to terminate instances by id.
InitSfr ==
    /\ cfg \in {c \in PoolConfigs : c.min_capacity = 0}
    /\ info = AllIdle
    /\ alive \in SUBSET InstanceIds
    /\ protected = {}
    /\ \E target \in 0..MaxTarget :
          groups = [g \in Groups |->
                [target |-> IF g = 1 THEN target ELSE 0, stale |-> FALSE,
                 minSize |-> 0, maxSize |-> 5]]
    /\ last = NoOp
    /\ auto = NoAutoscaler
    /\ tick = NoTick
    /\ conn = NoConn
    /\ batch = NoBatch
    /\ sim = NoSim
    /\ asg = NoAsg
    /\ load = NoLoad

NextSfr ==
    \E ids \in IdLists : TerminateInstancesById(1, ids) /\ UNCHANGED <<auto, tick, conn, load, batch, sim, asg>>

SpecSfr == InitSfr /\ [][NextSfr]_vars

\* One modify_target_capacity request during which the provider refuses the
\* requests of some of the groups.
NextApply ==
    /\ last.op = "init"
    /\ \E desired \in 0..MaxDesired, failing \in SUBSET Groups :
          ModifyTargetCapacityFailing(desired, FALSE, failing) /\ UNCHANGED <<auto, tick, conn, load, batch, sim, asg>>

SpecApply == InitTargets /\ [][NextApply]_vars

NextStale ==
    /\ last.op = "init"
    /\ \E desired \in 0..MaxDesired, dry_run \in BOOLEAN :
          ModifyTargetCapacity(desired, dry_run) /\ UNCHANGED <<auto, tick, conn, load, batch, sim, asg>>

SpecStale == InitStale /\ [][NextStale]_vars

\* One tick of the autoscaling loop: the signal answers or raises, and when
\* it raises so does, or does not, the evaluation of the except branch.
\* An open signal connection: any metrics payload to send, any response
\* and answer bytes of the worker.
InitSignal ==
    /\ batch = NoBatch
    /\ sim = NoSim
    /\ asg = NoAsg
    /\ load = NoLoad
    /\ cfg \in {c \in PoolConfigs : c.min_capacity = 0}
    /\ alive = {}
    /\ protected = {}
    /\ info = AllIdle
    /\ groups = [g \in Groups |-> [target |-> 0, stale |-> FALSE, minSize |-> 0, maxSize |-> 5]]
    /\ last = NoOp
    /\ auto = NoAutoscaler
    /\ tick = NoTick
    /\ conn \in {[NoConn EXCEPT !.pc = "send_length", !.worker = "read_length",
                                 !.payload = p, !.reply = d, !.ackLen = a, !.ackBody = b] :
                     p \in Payloads, d \in Documents, a \in {ACK, 0}, b \in {ACK, 0}}

\* An autoscaler about to be constructed over any configuration of the
\* application's signal and of the default signal.
InitLoad ==
    /\ cfg \in {c \in PoolConfigs : c.min_capacity = 0}
    /\ alive = {}
    /\ protected = {}
    /\ info = AllIdle
    /\ groups = [g \in Groups |-> [target |-> 0, stale |-> FALSE, minSize |-> 0, maxSize |-> 5]]
    /\ last = NoOp
    /\ auto = [NoAutoscaler EXCEPT !.signal = "none"]
    /\ tick = NoTick
    /\ conn = NoConn
    /\ batch = NoBatch
    /\ sim = NoSim
    /\ asg = NoAsg
    /\ load \in {[NoLoad EXCEPT !.app = a, !.default = d] :
                     a \in SignalConfigs,
                     d \in {c \in SignalConfigs : c.configured /\ c.period_minutes \in {0, 10}}}

NextLoad ==
    \/ Construct
    \/ ReadSignalConfig
    \/ Listen
    \/ Popen
    \/ WorkerConnect
    \/ WorkerExit
    \/ Poll
    \/ Accept
    \/ AcceptTimeout

SpecLoad == InitLoad /\ [][NextLoad]_vars

\* A batch entering its loop at some time of day, with an autoscaler whose
\* signal has a period of one or ten minutes.
StartTimes == {0, 101, 913, 2000}
InitBatch ==
    /\ cfg \in {c \in PoolConfigs : c.min_capacity = 0}
    /\ alive = {}
    /\ protected = {}
    /\ info = AllIdle
    /\ groups = [g \in Groups |-> [target |-> 0, stale |-> FALSE, minSize |-> 0, maxSize |-> 5]]
    /\ last = NoOp
    /\ auto = NoAutoscaler
    /\ tick = NoTick
    /\ conn = NoConn
    /\ load = NoLoad
    /\ batch \in {[NoBatch EXCEPT !.pc = "while", !.running = TRUE, !.period_minutes = p,
                                   !.dry_run = d, !.now = t] :
                      p \in {1, 10}, d \in BOOLEAN, t \in StartTimes}
    /\ sim = NoSim
    /\ asg = NoAsg

NextBatch ==
    \/ CheckRunning
    \/ RunCalled
    \/ RunReturns
    \/ Sleep
    \/ Stop

SpecBatch == InitBatch /\ [][NextBatch]_vars

\* One auto scaling group (group 2) just constructed with all its instances
\* running, nothing cached yet; callers modify and read its target while
\* the caches expire.
InitAsgCache ==
    /\ cfg \in {c \in PoolConfigs : c.min_capacity = 0}
    /\ info = AsgFleet
    /\ alive = InstanceIds
    /\ protected = alive
    /\ \E size \in AsgSizes, target \in 0..5 :
          /\ target >= size.minSize /\ target <= size.maxSize
          /\ groups = [g \in Groups |->
                [target |-> IF g = 2 THEN target ELSE 0, stale |-> FALSE,
                 minSize |-> IF g = 2 THEN size.minSize ELSE 0,
                 maxSize |-> IF g = 2 THEN size.maxSize ELSE 5]]
    /\ last = NoOp
    /\ auto = NoAutoscaler
    /\ tick = NoTick
    /\ conn = NoConn
    /\ load = NoLoad
    /\ batch = NoBatch
    /\ sim = NoSim
    /\ asg = NoAsg

NextAsgCache ==
    \/ \E capacity \in 0..MaxDesired, terminate_excess_capacity \in BOOLEAN, dry_run \in BOOLEAN :
          AsgCachedModify(2, capacity, terminate_excess_capacity, dry_run)
    \/ AsgReadTargetCapacity(2)
    \/ CacheExpires

SpecAsgCache == InitAsgCache /\ [][NextAsgCache]_vars

\* Callers terminate instances of the group by id.
NextAsgTerminate ==
    \E ids \in SUBSET InstanceIds : ids # {} /\ AsgTerminateInstancesById(2, SortedSeq(ids))

SpecAsgTerminate == InitAsgCache /\ [][NextAsgTerminate]_vars

\* A simulated spot fleet just constructed over any launch specifications
\* and spot prices: no instances, target 0.
InitSim ==
    /\ cfg \in {c \in PoolConfigs : c.min_capacity = 0}
    /\ alive = {}
    /\ protected = {}
    /\ info = AllIdle
    /\ groups = [g \in Groups |-> [target |-> 0, stale |-> FALSE, minSize |-> 0, maxSize |-> 5]]
    /\ last = NoOp
    /\ auto = NoAutoscaler
    /\ tick = NoTick
    /\ conn = NoConn
    /\ load = NoLoad
    /\ batch = NoBatch
    /\ sim \in {[NoSim EXCEPT !._instance_types = t, !.instance_prices = p] :
                    t \in SpotMarketConfigs, p \in [SpotMarkets -> InstancePrices]}
    /\ asg = NoAsg

NextSim ==
    \/ SimModify
    \/ SimTerminate
    \/ PriceChange

SpecSim == InitSim /\ [][NextSim]_vars

NextSignal ==
    \/ SendLength
    \/ WorkerAckLength
    \/ RecvLengthAck
    \/ SendBody
    \/ WorkerSendAck
    \/ WorkerSendReply
    \/ RecvResponse
    \/ RecvAgain

SpecSignal == InitSignal /\ [][NextSignal]_vars

NextAuto ==
    \/ /\ tick.op = "init"
       /\ \E timestamp \in Timestamps, dry_run \in BOOLEAN,
             first \in {o \in EvalOutcomes : ~o.raises} :
             Run(timestamp, dry_run, first, first) /\ UNCHANGED <<conn, load, batch, sim, asg>>
    \/ /\ tick.op = "init"
       /\ \E timestamp \in Timestamps, dry_run \in BOOLEAN,
             first \in {o \in EvalOutcomes : o.raises}, second \in EvalOutcomes :
             Run(timestamp, dry_run, first, second) /\ UNCHANGED <<conn, load, batch, sim, asg>>

SpecAuto == InitAuto /\ [][NextAuto]_vars

\* ------------------------------------------------------------- properties
ModifyDone == last.op = "modify" /\ ~last.error
NonStaleBefore == Groups \ last.staleBefore

\* C1: after the pool manager's modify_target_capacity on a pool with a
\* non-stale group, the new targets of the non-stale groups sum to the
\* constrained pool target exactly.
C1_SumEqualsConstrained ==
    ModifyDone => SumOver(last.newTargets, NonStaleBefore) = last.ret

\* A rebalancing over unequal current targets, with a stale group aside,
\* that moved the pool target.
C1_Witness ==
    /\ ModifyDone
    /\ last.staleBefore # {}
    /\ last.ret # last.poolBefore
    /\ \E g, h \in NonStaleBefore : last.before[g] # last.before[h]
    /\ last.ret % Cardinality(NonStaleBefore) # 0

\* C2: rebalancing is monotone: when the constrained target is at least the
\* sum of the current targets no group's new target is lower than its
\* current one, when it is at most that sum none is higher.
C2_Monotone ==
    ModifyDone =>
        /\ last.ret >= last.poolBefore =>
              \A g \in Groups : last.newTargets[g] >= last.before[g]
        /\ last.ret <= last.poolBefore =>
              \A g \in Groups : last.newTargets[g] <= last.before[g]

\* A scale-up with a group already above the equal share.
C2_Witness ==
    /\ ModifyDone
    /\ last.ret > last.poolBefore
    /\ \E g \in NonStaleBefore :
          last.before[g] * Cardinality(NonStaleBefore) > last.ret

C3_Clamp ==
    Min(cfg.max_capacity,
        Max(Max(cfg.min_capacity, Cardinality(NonStaleBefore)), last.desired))

C6_PruneOnlyIdle ==
    last.op = "modify" =>
        /\ Cardinality(last.aliveBefore \ alive) <= Cardinality(last.idle)
        /\ \A i \in last.marked \cup (last.aliveBefore \ alive) \cup {p[2] : p \in last.sent} :
              info[i].hasIp /\ info[i].agentCpus = 0

\* A pruning pass that terminated an idle instance while another instance
\* of the pool had no agent.
C6_Witness ==
    /\ last.op = "modify"
    /\ last.aliveBefore \ alive # {}
    /\ \E i \in last.aliveBefore : info[i].owner \in Groups /\ info[i].hasIp /\ info[i].agentCpus = -1

\* C7: when the configured non-default signal's evaluate raises, run
\* evaluates the default signal with the same timestamp, and the target
\* passed to the pool manager's modify_target_capacity is the one computed
\* from the default signal's request.
C7_FallbackToDefault ==
    (tick.op = "run" /\ auto.signal = "app" /\ tick.first.raises) =>
        /\ tick.evals = << <<"app", tick.timestamp>>, <<"default", tick.timestamp>> >>
        /\ tick.modified =>
              /\ ~tick.second.raises
              /\ tick.request = tick.second.request
              /\ last.op = "modify" /\ last.desired = tick.modifyArg
              /\ tick.modifyArg = tick.target[1] \div tick.target[2]
              /\ Requested(tick.second.request) = {} => tick.modifyArg = tick.current

\* The application signal raised and the default signal's request moved the
\* target.
C7_Witness ==
    /\ tick.op = "run" /\ auto.signal = "app" /\ tick.first.raises
    /\ tick.modified
    /\ Requested(tick.request) # {}
    /\ tick.modifyArg # tick.current

\* C8: when the default signal's evaluate raises, as the configured signal
\* or as the fallback, run raises and neither reload_state nor
\* modify_target_capacity is invoked in that tick.
C8_DefaultFailureAbortsTick ==
    (/\ tick.op = "run"
     /\ \/ auto.signal = "default" /\ tick.first.raises
        \/ tick.first.raises /\ tick.second.raises) =>
        /\ tick.raised
        /\ ~tick.reloaded
        /\ ~tick.modified

C10_Hysteresis ==
    (tick.op = "run" /\ tick.computed /\ Requested(tick.request) # {}) =>
        LET distance == Abs(tick.scaled[1] - tick.current * tick.scaled[2]) * auto.config.margin[2]
            margin == auto.config.margin[1] * tick.current * tick.scaled[2]
        IN /\ distance < margin => tick.target = <<tick.current, 1>>
           /\ distance >= margin => tick.target = tick.scaled

\* A request whose new target is exactly setpoint_margin away from the
\* current target.
C10_Witness ==
    /\ tick.op = "run" /\ tick.computed /\ Requested(tick.request) # {}
    /\ Abs(tick.scaled[1] - tick.current * tick.scaled[2]) * auto.config.margin[2]
         = auto.config.margin[1] * tick.current * tick.scaled[2]
    /\ tick.target = tick.scaled

\* C11: when every resource of the request is absent,
\* _compute_target_capacity returns the pool's current target capacity,
\* whatever the fulfilled capacity, the setpoint and the margin.
C11_NoDataKeepsTarget ==
    (tick.op = "run" /\ tick.computed /\ Requested(tick.request) = {}) =>
        /\ tick.target = <<tick.current, 1>>
        /\ tick.modifyArg = tick.current

\* A request without data on a pool whose fulfilled capacity, orphans
\* excluded, differs from its target.
C11_Witness ==
    /\ tick.op = "run" /\ tick.computed /\ Requested(tick.request) = {}
    /\ tick.nonOrphan # tick.current
    /\ tick.current > 0

FracEq(a, b) == a[1] * b[2] = b[1] * a[2]

\* The target the request asks for through resource r:
\* non_orphan_fulfilled_capacity * (request[r] / pool_total(r)) / setpoint.
C12_TargetThrough(r) ==
    <<tick.nonOrphan * tick.request[r] * auto.config.setpoint[2],
      tick.totals[r] * auto.config.setpoint[1]>>
C12_Doubled == [r \in Resources |-> 2 * tick.totals[r]]

\* C12: for a request with a non-absent resource and outside the margin the
\* new target is non_orphan_fulfilled_capacity * u / setpoint, u the largest
\* request[r] / pool_total(r) over the non-absent resources; and it is the
\* same when the fulfilled capacity and the pool totals double.
C12_TargetFromMostConstrained ==
    (tick.op = "run" /\ tick.computed /\ Requested(tick.request) # {}) =>
        /\ \E r \in Requested(tick.request) :
              /\ \A q \in Requested(tick.request) :
                    ~FracLess(C12_TargetThrough(r), C12_TargetThrough(q))
              /\ Abs(C12_TargetThrough(r)[1] - tick.current * C12_TargetThrough(r)[2])
                        * auto.config.margin[2]
                    >= auto.config.margin[1] * tick.current * C12_TargetThrough(r)[2]
                 => FracEq(tick.target, C12_TargetThrough(r))
        /\ FracEq(ComputeTargetFrom(tick.request, tick.current, 2 * tick.nonOrphan, C12_Doubled),
                  ComputeTargetFrom(tick.request, tick.current, tick.nonOrphan, tick.totals))
        /\ FracEq(ComputeTargetFrom(tick.request, tick.current, tick.nonOrphan, tick.totals),
                  tick.target)

\* A request for cpus and mem, mem the most constrained, outside the margin,
\* on a pool with an orphaned instance.
C12_Witness ==
    /\ tick.op = "run" /\ tick.computed
    /\ Requested(tick.request) = {"cpus", "mem"}
    /\ FracLess(C12_TargetThrough("cpus"), C12_TargetThrough("mem"))
    /\ FracEq(tick.target, C12_TargetThrough("mem"))
    /\ ~FracEq(tick.target, <<tick.current, 1>>)
    /\ tick.nonOrphan # tick.current

\* C13: evaluate_signal sends a 4-byte big-endian length equal to the
\* payload's, then chunks of at most SOCK_MESG_SIZE bytes whose concatenation
\* the peer reconstructs equal to the payload; and the response returned to
\* the caller is the complete payload the worker sent.
C13_FramingRoundTrip ==
    /\ conn.worker \in {"read_body", "send_reply", "done"} =>
          /\ Take(conn.wire, 4) = <<0, 0, 0, Len(conn.payload)>>
          /\ conn.declared = Len(conn.payload)
    /\ conn.pc \in {"recv_response", "recv_again"} \/ (conn.pc = "done" /\ conn.chunks # <<>>) =>
          /\ \A k \in 1..Len(conn.chunks) : Len(conn.chunks[k]) <= SOCK_MESG_SIZE
          /\ Drop(conn.wire, 4) = conn.payload
    /\ (conn.pc = "done" /\ conn.ackLen = ACK /\ conn.ackBody = ACK) =>
          /\ conn.status = "returned"
          /\ <<123>> \o conn.value \o <<125>> = conn.reply

\* What evaluate_signal makes of the worker's answer when the ACK arrives
\* alone, and when it arrives with the bytes that follow it.
C14_AckAlone ==
    ReadResponse(<<conn.ackBody>>, Take(conn.reply, SOCK_MESG_SIZE))
C14_AckCoalesced ==
    ReadResponse(Take(<<conn.ackBody>> \o conn.reply, SOCK_MESG_SIZE), <<>>)

\* C14: evaluate_signal yields the same value whether the ACK arrives alone
\* in the first read or together with the first payload bytes, and in both
\* deliveries a first byte other than the ACK raises SignalConnectionError.
C14_SameInBothDeliveries ==
    conn.pc # "closed" =>
        /\ C14_AckAlone = C14_AckCoalesced
        /\ conn.ackBody # ACK =>
              /\ C14_AckAlone.status = "SignalConnectionError"
              /\ C14_AckCoalesced.status = "SignalConnectionError"
        /\ (conn.pc = "done" /\ conn.first # <<>>) =>
              /\ conn.status = C14_AckAlone.status
              /\ conn.value = C14_AckAlone.value

\* C15: modify_target_capacity on a pool with no non-stale resource group
\* fails with the pool manager's error, changes no group's target and
\* terminates no instance.
C15_NoGroupsFails ==
    [][\A desired \in 0..MaxDesired, dry_run \in BOOLEAN :
          (NonStaleGroups = {} /\ ModifyTargetCapacity(desired, dry_run)) =>
              /\ last'.error
              /\ last'.calls = {} /\ last'.sent = {}
              /\ groups' = groups /\ alive' = alive /\ protected' = protected]_vars

\* A request that failed on a pool whose groups are all stale, while the
\* groups still hold a target that a rebalancing would have changed.
C15_Witness ==
    /\ last.op = "modify" /\ last.error /\ ~last.dry_run
    /\ last.staleBefore = Groups
    /\ NonStaleGroups = {}
    /\ last.desired = 0
    /\ \E g \in Groups : RawTarget(g) > 0
    /\ IdleCandidates(alive) # {}

\* What a request asks of the pool target, the total change of the group
\* targets the last call decided, the change a step made to the targets the
\* groups report, and whether every auto scaling group can hold the target
\* the last call gave it.
C16_Asked(desired) == ClampToBounds(desired) - PoolTarget
C16_Change == SumOver([g \in Groups |-> Abs(last.newTargets[g] - last.before[g])], Groups)
C16_Applied == SumOver([g \in Groups |-> Abs(target_capacity(g)' - target_capacity(g))], Groups)
C16_GroupsAccept ==
    \A g \in NonStaleGroups :
        Kind(g) = "asg" =>
            /\ last.newTargets[g] >= groups[g].minSize
            /\ last.newTargets[g] <= groups[g].maxSize
C16_Capped(desired) ==
    /\ C16_Asked(desired) >= 0 => C16_Change' = Min(C16_Asked(desired), cfg.max_weight_to_add)
    /\ C16_Asked(desired) <= 0 => C16_Change' = Min(-C16_Asked(desired), cfg.max_weight_to_remove)
    /\ C16_Applied <= C16_Change'
C16_Closer(desired) ==
    Abs(ClampToBounds(desired) - PoolTarget') = Abs(C16_Asked(desired)) - C16_Change'

C17_FulfilledIsWeightedCount ==
    \A g \in Groups :
        /\ fulfilled_capacity(g) =
              SumOver([m \in Markets |->
                          IF MembersIn(g, alive, m) = {} THEN 0
                          ELSE market_weight(g, m) * Cardinality(MembersIn(g, alive, m))],
                      Markets)
        /\ fulfilled_capacity(g) =
              SumOver([m \in Markets |-> MarketCapacityOf(g, alive, m)], Markets)

\* C18: every member instance of an auto scaling group is protected from
\* scale-in in every reachable state.
C18_MembersProtected ==
    \A g \in Groups : Kind(g) = "asg" => Members(g, alive) \subseteq protected

\* What the last AutoScalingResourceGroup.modify_target_capacity call was
\* about: the group's size bounds, the drop N from the current
\* DesiredCapacity to the new (rounded) one, the provider calls by name, and
\* the instances that lost their protection.
AsgCall == last.op = "asg_modify"
AsgDrop == last.targetBefore - last.kwargs
AsgCallNames == [k \in 1..Len(last.log) |-> last.log[k][1]]
AsgUnprotected == last.protectedBefore \ protected

C20_AsgClamps ==
    AsgCall =>
        LET min_size == groups[last.group].minSize
            max_size == groups[last.group].maxSize
        IN /\ \A k \in 1..Len(last.log) :
                 AsgCallNames[k] = "set_desired_capacity" =>
                    /\ last.log[k][2] = last.kwargs
                    /\ last.log[k][2] >= min_size /\ last.log[k][2] <= max_size
                    /\ last.capacity > max_size => last.log[k][2] = max_size
                    /\ last.capacity < min_size => last.log[k][2] = min_size
                    /\ (last.capacity >= min_size /\ last.capacity <= max_size) =>
                          last.log[k][2] = last.capacity
           /\ last.warned <=> last.kwargs # last.capacity

\* A request below MinSize that was sent as MinSize, with the warning, and
\* that lowered the group's DesiredCapacity to MinSize.
C20_Witness ==
    /\ AsgCall /\ ~last.dry_run /\ last.fails = "none"
    /\ last.capacity < groups[last.group].minSize
    /\ last.warned
    /\ AsgCallNames = <<"set_desired_capacity">>
    /\ last.log[1][2] = groups[last.group].minSize
    /\ last.targetBefore > groups[last.group].minSize
    /\ RawTarget(last.group) = groups[last.group].minSize

\* C21: after SpotFleetResourceGroup.terminate_instances_by_id on a
\* non-empty list the fleet's target capacity is its previous target less
\* the summed market weights of the instances the provider reports
\* terminated (not of those requested), asked for with policy NoTermination.
C21_TargetLessTerminatedWeight ==
    (last.op = "terminate" /\ last.sent # {} /\ Kind(last.group) = "sfr") =>
        /\ RawTarget(last.group) =
              last.targetBefore
                - SumOver([i \in InstanceIds |-> market_weight(last.group, info[i].market)],
                          last.aliveBefore \ alive)
        /\ Len(last.log) = 1
        /\ last.log[1][3] = "NoTermination"

\* C22: rebalancing gives a stale group the new target 0 and leaves it out
\* of the distribution: the new targets of all groups sum to the pool target
\* as those of the non-stale groups do, and a stale group is never scaled up;
\* every non-stale group's new target is at least 0; an auto scaling group
\* is never stale.
C22_StaleGetsZero ==
    /\ \A g \in Groups : Kind(g) = "asg" => ~is_stale(g)
    /\ ModifyDone =>
          /\ \A g \in Groups :
                IF Kind(g) = "sfr" /\ groups[g].stale
                THEN last.newTargets[g] = 0 /\ last.before[g] = 0 /\ g \in last.staleBefore
                ELSE last.newTargets[g] >= 0 /\ g \notin last.staleBefore
          /\ SumOver(last.newTargets, Groups) = last.ret
          /\ SumOver(last.newTargets, NonStaleBefore) = SumOver(last.newTargets, Groups)

\* A scale-up that raised two non-stale groups by different amounts while
\* a cancelled fleet was given 0 and sent it.
C22_Witness ==
    /\ ModifyDone /\ ~last.dry_run
    /\ last.ret > last.poolBefore
    /\ \E g \in last.staleBefore :
          /\ last.newTargets[g] = 0 /\ RawTarget(g) = 0
          /\ <<"modify_spot_fleet_request", g>> \in last.calls
    /\ \E h, k \in NonStaleBefore :
          /\ last.newTargets[h] > last.before[h]
          /\ last.newTargets[k] - last.before[k] > last.newTargets[h] - last.before[h]

\* C23: the pool manager applies the new targets one group at a time in the
\* order of its group list; a group whose request the provider refuses
\* keeps its target and the failure is logged, and every other group,
\* those after it included, is still modified.
C23_FailureDoesNotAbort ==
    (ModifyDone /\ ~last.dry_run) =>
        /\ [k \in 1..Len(last.log) |-> last.log[k][1]] = SortedSeq(Groups)
        /\ \A k \in 1..Len(last.log) :
              LET g == last.log[k][1]
              IN IF g \in last.failed
                 THEN /\ last.log[k][2] = "ResourceGroupError"
                      /\ g \in NonStaleBefore => target_capacity(g) = last.before[g]
                 ELSE /\ last.log[k][2] = "modified"
                      /\ RawTarget(g) = (IF Kind(g) = "asg" THEN AsgRound(g, last.newTargets[g])
                                         ELSE last.newTargets[g])

\* The provider refused the first group's request; the first group kept a
\* target the rebalancing wanted changed, and the groups after it changed.
C23_Witness ==
    /\ ModifyDone /\ ~last.dry_run
    /\ last.failed = {1}
    /\ 1 \in NonStaleBefore
    /\ last.newTargets[1] # last.before[1]
    /\ target_capacity(1) = last.before[1]
    /\ \A g \in Groups \ {1} : g \in NonStaleBefore /\ target_capacity(g) # last.before[g]

\* C24: a SignalValidationError raised while the application's configured
\* signal is loaded ends the construction of the autoscaler: it is raised to
\* the caller and the autoscaler does not go on with another signal.
C24_ValidationErrorIsFatal ==
    (load.which = "app" /\ load.error = "SignalValidationError") =>
        /\ load.raised = "SignalValidationError"
        /\ auto.signal = "none"

\* C25: the check after the sleep that finds the worker exited, whatever its
\* exit status, raises SignalConnectionError and accept is never called; a
\* connection is accepted, once, only when the check found the worker
\* running; the socket listens before the worker is spawned.
C25_ExitedWorkerNeverAccepted ==
    /\ (load.polled /\ ~load.return_code.none) =>
          load.error = "SignalConnectionError" /\ load.pc # "accept" /\ load.accepts = 0
    /\ load.accepts <= 1
    /\ load.accepts = 1 => (load.polled /\ load.return_code.none)
    /\ load.worker.state # "none" => load.atSpawn = "listening"

C27_Rebalanced ==
    (ModifyDone /\ last.ret = last.poolBefore) =>
        \A g \in NonStaleBefore :
            /\ last.newTargets[g] = last.before[g]
            /\ target_capacity(g) = last.before[g]
C27_Again ==
    /\ last.op = "modify" /\ ~last.error /\ ~last.dry_run
    /\ last'.op = "modify" /\ ~last'.error /\ ~last'.dry_run
    /\ last'.desired = last.desired
C27_SameTargets == \A g \in Groups : target_capacity(g)' = target_capacity(g)

C29_Coeff == IF last.ret < last.poolBefore THEN -1 ELSE 1
C29_Budget(P) == last.ret - SumOver(last.before, P)
C29_Beyond(g, P) ==
    C29_Coeff * last.before[g] * Cardinality(NonStaleBefore \ P) > C29_Coeff * C29_Budget(P)
C29_Precedes(g, h) ==
    \/ C29_Coeff * last.before[g] < C29_Coeff * last.before[h]
    \/ (last.before[g] = last.before[h] /\ g < h)
C29_Split(P) ==
    LET rest == NonStaleBefore \ P
        n == Cardinality(rest)
        B == C29_Budget(P)
    IN /\ n > 0
       /\ \A g \in P : C29_Beyond(g, P) /\ last.newTargets[g] = last.before[g]
       /\ \A g \in rest :
             /\ ~C29_Beyond(g, P)
             /\ last.newTargets[g] =
                   (B \div n) + (IF Cardinality({h \in rest : C29_Precedes(h, g)}) < B % n
                                 THEN 1 ELSE 0)

\* C29: in rebalancing, the groups whose target is beyond the equal share of
\* the budget, against the direction of the scaling, keep their target and
\* leave the budget; the others get the floor of the share, the first
\* (budget mod remaining) of them in sorted order one more, so that their new
\* targets differ by at most one.
C29_PinnedAndEqualShares ==
    ModifyDone =>
        /\ \E P \in SUBSET NonStaleBefore : C29_Split(P)
        /\ \A P \in SUBSET NonStaleBefore :
              C29_Split(P) =>
                 \A g, h \in NonStaleBefore \ P :
                     Abs(last.newTargets[g] - last.newTargets[h]) <= 1

\* One group kept a target beyond the share and the two others split the
\* rest of the budget, the first of them receiving one more.
C29_Witness ==
    /\ ModifyDone
    /\ \E P \in SUBSET NonStaleBefore :
          /\ C29_Split(P)
          /\ Cardinality(P) = 1
          /\ \E g, h \in NonStaleBefore \ P :
                /\ C29_Precedes(g, h)
                /\ last.newTargets[g] = last.newTargets[h] + 1
                /\ last.newTargets[g] # last.before[g]

\* C30 helper: the markets that still had idle candidates at a step of the
\* pruning.
C30_Open(step) == {m \in Markets : IdleIn(step.cands, m) # {}}

\* C30: at each step of the pruning the market chosen is one with the
\* largest pool-wide capacity among the markets that still have idle
\* candidates; when no market has any, the choice is (None, 0) and the
\* pruning stops there, marking nothing more.
C30_LargestOpenMarket ==
    last.op = "modify" =>
        \A k \in 1..Len(last.steps) :
            LET step == last.steps[k]
            IN IF C30_Open(step) = {}
               THEN /\ step.choice = <<"None", 0>>
                    /\ k = Len(last.steps)
                    /\ ~last.pruneError => last.marked = step.marked
               ELSE /\ step.choice[1] \in C30_Open(step)
                    /\ step.choice[2] = step.caps[step.choice[1]]
                    /\ \A m \in C30_Open(step) : step.caps[m] <= step.choice[2]

\* A pruning of several steps that chose the larger of two markets with
\* idle candidates and marked an instance.
C30_Witness ==
    /\ ModifyDone
    /\ Len(last.steps) >= 2
    /\ last.marked # {}
    /\ \E k \in 1..Len(last.steps) : \E m \in C30_Open(last.steps[k]) :
          last.steps[k].caps[m] < last.steps[k].choice[2]

\* C31 helpers: the state an iteration of the pruning left to the next one
\* (the capacities and marks the next iteration began with, or the final
\* marks), and the owner and weight of the candidate it took.
C31_MarkedAfter(k) ==
    IF k < Len(last.steps) THEN last.steps[k + 1].marked ELSE last.marked
C31_Owner(step) == _find_resource_group(step.taken, last.aliveBefore)
C31_Weight(step) == market_weight(C31_Owner(step), step.choice[1])

C32_NeverBelowTarget ==
    (ModifyDone /\ ~last.dry_run) =>
        /\ \A k \in 1..Len(last.steps) :
              last.steps[k].outcome = "marked" =>
                  C31_Weight(last.steps[k]) <= last.steps[k].curr - last.ret
        /\ PoolFulfilledOf(last.aliveBefore) >= last.ret => PoolFulfilledOf(alive) >= last.ret

C34_FallsBackToDefault ==
    /\ Len(load.alerts) <= 1
    /\ load.pc = "done" =>
          /\ load.which = "app"
          /\ load.raised = "none"
          /\ auto.signal = (IF load.error = "none" THEN "app" ELSE "default")
          /\ load.alerts = (IF load.error \in {"none", "NoSignalConfiguredException"}
                            THEN <<>> ELSE <<[status |-> "WARNING", page |-> FALSE]>>)
    /\ load.alerts # <<>> => load.pc = "done"

\* The application's signal failed to load for another reason than a
\* missing configuration, and the autoscaler was constructed.
C34_Witness ==
    /\ load.pc = "done"
    /\ load.error \in {"SignalValidationError", "SignalConnectionError", "timeout"}
    /\ auto.signal = "default"
    /\ Len(load.alerts) = 1

\* The simulated fleet as the last call found it.
SimBefore == [sim EXCEPT !.instances = sim.call.instances, !._target_capacity = sim.call._target_capacity]
SimGrown == {market \in SpotMarkets :
                market_size(sim.instances, market) > market_size(sim.call.instances, market)}
SimScaledUp ==
    /\ sim.call.op = "modify_target_capacity"
    /\ SimFulfilledCapacity(SimBefore) < sim.call.target_capacity
    /\ _find_available_markets(sim) # {}

\* C35: after modify_target_capacity(t) on a simulated spot fleet whose
\* fulfilled capacity was below t, with at least one available market, the
\* fulfilled capacity is at least t, only available markets received
\* instances, and the fulfilled capacity exceeds t by less than the largest
\* weight among the markets that received instances.
C35_MeetsTargetWithoutExcess ==
    SimScaledUp =>
        /\ SimFulfilledCapacity(sim) >= sim.call.target_capacity
        /\ SimGrown \subseteq _find_available_markets(sim)
        /\ \E market \in SimGrown :
              SimFulfilledCapacity(sim) - sim.call.target_capacity < sim._instance_types[market].weight

\* What is left of the excess when the walk reaches the k-th instance the
\* fleet had: the excess over the target less the weights of the instances
\* launched earlier that the call removed.
C40_Weight(k) == sim._instance_types[sim.call.instances[k].market].weight
C40_Removed == {k \in 1..Len(sim.call.instances) :
                   \A j \in 1..Len(sim.instances) : sim.instances[j].id # sim.call.instances[k].id}
C40_Excess(k) ==
    SimFulfilledCapacity(SimBefore) - sim.call.target_capacity
        - SumOver([j \in 1..Len(sim.call.instances) |-> C40_Weight(j)], {j \in C40_Removed : j < k})

\* C40: modify_target_capacity(t, terminate_excess_capacity=True) on a
\* simulated spot fleet holding more than t removes, walking the instances
\* in the order they were launched, exactly those no heavier than what is
\* left of the excess, launches nothing, and leaves the fulfilled capacity
\* at t or above; after terminate_instances_by_id(ids) the ids are gone and,
\* when a market is available, the fulfilled capacity is at least the
\* fleet's target.
C40_TerminatesWithinExcess ==
    /\ (/\ sim.call.op = "modify_target_capacity"
        /\ sim.call.terminate_excess_capacity
        /\ SimFulfilledCapacity(SimBefore) > sim.call.target_capacity) =>
          /\ \A k \in 1..Len(sim.call.instances) : k \in C40_Removed <=> C40_Weight(k) <= C40_Excess(k)
          /\ sim.instances = SelectSeq(sim.call.instances, LAMBDA instance :
                                 \E j \in 1..Len(sim.instances) : sim.instances[j].id = instance.id)
          /\ SimFulfilledCapacity(sim) >= sim.call.target_capacity
          /\ sim._target_capacity = sim.call.target_capacity
    /\ sim.call.op = "terminate_instances_by_id" =>
          /\ \A j \in 1..Len(sim.instances) : sim.instances[j].id \notin sim.call.ids
          /\ sim._target_capacity = sim.call._target_capacity
          /\ _find_available_markets(sim) # {} => SimFulfilledCapacity(sim) >= sim._target_capacity

\* A scale-down that passed over an instance heavier than the excess left
\* and removed one launched after it.
C40_Witness ==
    /\ sim.call.op = "modify_target_capacity"
    /\ sim.call.terminate_excess_capacity
    /\ \E j, k \in 1..Len(sim.call.instances) : j < k /\ j \notin C40_Removed /\ k \in C40_Removed
    /\ SimFulfilledCapacity(sim) > sim.call.target_capacity

\* C37: once modify_target_capacity has sent a DesiredCapacity to the
\* provider, a read of the auto scaling group's target_capacity yields the
\* value sent, and a later modify_target_capacity computes its target_diff,
\* the number of instances to unprotect, from the DesiredCapacity the
\* provider holds.
C37_TargetIsWhatWasSent ==
    /\ (asg.call.op = "target_capacity" /\ ~asg.sent.none) => asg.call.value = asg.sent.value
    /\ (asg.call.op = "modify_target_capacity" /\ ~asg.call.dry_run) =>
          /\ asg.call.target_diff = asg.call.targetBefore - asg.call.kwargs
          /\ asg.call.terminate_excess_capacity =>
                Len(asg.call.unprotected) = Min(NumInstances, Max(asg.call.targetBefore - asg.call.kwargs, 0))

\* C38: terminate_instances_by_id of an auto scaling group hands every
\* requested instance id of the group to ec2.terminate_instances in exactly
\* one call, no call carries more than _BATCH_TERM_SIZE ids, and the list
\* returned holds no id twice.
C38_EachIdTerminatedOnce ==
    asg.call.op = "terminate_instances_by_id" =>
        /\ \A i \in SeqToSet(asg.call.instance_ids) :
              Cardinality({<<c, k>> \in (1..Len(asg.call.calls)) \X (1..NumInstances) :
                              k <= Len(asg.call.calls[c]) /\ asg.call.calls[c][k] = i}) = 1
        /\ \A c \in 1..Len(asg.call.calls) : Len(asg.call.calls[c]) <= _BATCH_TERM_SIZE
        /\ \A j, k \in 1..Len(asg.call.terminated_ids) :
              j # k => asg.call.terminated_ids[j] # asg.call.terminated_ids[k]

\* C36: in a tick whose signal asked for some resource,
\* _compute_target_capacity returns a target and does not raise, whatever
\* the pool's current target capacity and resource totals, zero included.
C36_ComputeNeverRaises ==
    (tick.op = "run" /\ tick.reloaded /\ Requested(tick.request) # {}) => tick.computed

\* Where a call stands among the calls of the tick (0 when it was not made).
C39_At(call) ==
    IF \E k \in 1..Len(tick.calls) : tick.calls[k] = call
    THEN CHOOSE k \in 1..Len(tick.calls) : tick.calls[k] = call
    ELSE 0

\* C39: in every tick reload_state comes before the target computation and
\* the target computation before modify_target_capacity; when the
\* configured signal's evaluate raised and the default signal answered, the
\* exception is raised again only after all three, as the last thing the
\* tick does, and a tick whose target computation and
\* modify_target_capacity went through has applied the default signal's
\* decision and ends raising.
C39_RaisesAfterModify ==
    tick.op = "run" =>
        /\ C39_At("_compute_target_capacity") > 0 => C39_At("reload_state") = 1
        /\ C39_At("_compute_target_capacity") \in {0, 2}
        /\ C39_At("modify_target_capacity") \in {0, 3}
        /\ tick.modified <=> C39_At("modify_target_capacity") = 3
        /\ tick.reloaded <=> C39_At("reload_state") = 1
        /\ C39_At("raise") \in {0, 4}
        /\ C39_At("raise") = 4 => (tick.first.raises /\ tick.modified /\ tick.raised)
        /\ (tick.first.raises /\ ~tick.second.raises /\ tick.modified /\ ~last.error) =>
              /\ tick.calls = <<"reload_state", "_compute_target_capacity",
                                "modify_target_capacity", "raise">>
              /\ tick.request = tick.second.request
              /\ last.op = "modify" /\ last.desired = tick.modifyArg
              /\ tick.raised

\* The application signal raised, the default signal asked for another
\* target, the pool manager applied it and the tick raised.
C39_Witness ==
    /\ tick.op = "run" /\ auto.signal = "app"
    /\ tick.first.raises /\ ~tick.second.raises
    /\ tick.modified /\ ~last.error /\ ~tick.dry_run
    /\ tick.modifyArg # tick.current
    /\ tick.calls[4] = "raise"

====
